---- MODULE Spec2Model ----
(***************************************************************************)
(* A model of UniversalCompiler.py: the compiler dispatch                  *)
(* (Compiler.compile and its strategies, run_command), the temporary       *)
(* workspace of compile_batch, the CompilationHistory store and the build  *)
(* worker started by UniversalCompiler._compile, the stores Settings,      *)
(* RecentFiles and BuildProfiles, the command lines of the strategies,     *)
(* the probes of DependencyChecker, estimate_output_size, and the batch    *)
(* queue with _compile_all.                                                *)
(*                                                                         *)
(* Texts are sequences of string tokens, so that concatenation is          *)
(* sequence concatenation.  A Python None / empty string is "".            *)
(***************************************************************************)
EXTENDS Integers, Sequences, FiniteSets, TLC

(***************************************************************************)
(* Bounds of the model.                                                    *)
(***************************************************************************)
MaxTemp == 2        \* names tempfile.mkdtemp can choose from
MaxExit == 1        \* exit statuses of an external process are 0..MaxExit
MaxSize == 1        \* byte sizes of an output file are 0..MaxSize
MaxCap == 2         \* max_items of the history is 1..MaxCap
MaxPreload == 3     \* entries found in history.json at start are 0..MaxPreload
MaxBuilds == 1      \* workers started by _compile in one behaviour
MaxRecent == 2      \* max_items of the recent files is 1..MaxRecent
MaxStored == 2      \* paths found in recent.json at start are 0..MaxStored
MaxOps == 3         \* mutating calls of one store between two constructions
MaxSrcSize == 4     \* source sizes are 0..MaxSrcSize bytes and 1..MaxSrcSize MiB
MaxQueue == 2       \* files in the batch queue

VARIABLES
    \* the host: tools, files, directories
    host,           \* the tool locations that exist (PATH entries, fixed paths)
    srcFiles,       \* the source paths that exist
    fsOut,          \* output path -> {} (no file) or {size}
    dirs,           \* the temporary directories that exist
    \* one call of Compiler.compile
    cpc,            \* position of the call
    req,            \* its arguments
    temp_dir,       \* compile_batch: {} or {the directory mkdtemp returned}
    wsFiles,        \* compile_batch: the files in temp_dir
    exc,            \* compile_batch: an exception is propagating
    result,         \* the (success, output) pair computed so far
    proc,           \* what subprocess.run did in run_command
    spawns,         \* number of subprocess.run attempts of this call
    rmtree_outcome, \* "none", "removed" or "failed": the finally clause
    dirs_before,    \* the temporary directories that existed at the call
    \* CompilationHistory
    history, history_file, max_items, clock, adds,
    \* UniversalCompiler (UI thread and build worker)
    source_file, file_type, output_entry, compile_btn, compiling,
    wpc,            \* position of compile_thread
    w_output,       \* output_path of the closure
    w_success,      \* the local success of compile_thread
    builds,         \* number of workers started
    \* the stores
    save_outcome,   \* what the last save_json did: "none", "written", ...
    store,          \* the store a behaviour of SpecStores works on
    sops,           \* mutating calls of that store since its construction
    boot_kind,      \* kind of the backing file the store was constructed from
    settings, settings_file,            \* Settings._settings and its file
    recent_files, recent_file, recent_max,  \* RecentFiles._files, file, cap
    last_added,     \* the filepath of the last RecentFiles.add call
    profiles, profiles_file,            \* BuildProfiles._profiles and its file
    \* the command line a strategy hands to run_command
    opts,           \* the arguments of one Compiler.compile call
    cmd,            \* the argument vector built for them
    cwd,            \* the cwd given to run_command (<< >> for None)
    sed_content,    \* compile_batch: the text written to config.sed
    \* calls of the functions that only read the host
    denied,         \* the fixed paths whose stat fails with a permission error
    probe_type,     \* the file_type of the last check_compiler call
    probe_out,      \* its outcome: "none", "True", "False" or "raised"
    probe_again,    \* the outcome of the same call made once more
    status_out,     \* the outcome of the last get_all_status call
    est_in,         \* the arguments of the last estimate_output_size call
    est_out,        \* the text it returned
    \* the batch queue and _compile_all
    batch_queue,    \* self.batch_queue
    compile_all_btn, \* the Compile All button is enabled
    ca_pc,          \* position of _compile_all: "idle", "wait" or "done"
    ca_items,       \* the copy of the queue it iterates over
    ca_idx,         \* the index in ca_items of the file it is at
    batch_started   \* the indices whose _compile() call started a worker

envVars == <<host, srcFiles, fsOut, dirs>>
callVars == <<cpc, req, temp_dir, wsFiles, exc, result, proc, spawns,
              rmtree_outcome, dirs_before>>
histVars == <<history, history_file, max_items, clock, adds>>
uiVars == <<source_file, file_type, output_entry, compile_btn, compiling,
            wpc, w_output, w_success, builds>>
settingsVars == <<settings, settings_file>>
recentVars == <<recent_files, recent_file, recent_max, last_added>>
profileVars == <<profiles, profiles_file>>
otherStoreVars == <<store, sops, boot_kind, settings, settings_file,
                    recent_files, recent_file, recent_max, last_added,
                    profiles, profiles_file>>
storeVars == <<save_outcome, otherStoreVars>>
cmdVars == <<opts, cmd, cwd, sed_content>>
batchVars == <<batch_queue, compile_all_btn, ca_pc, ca_items, ca_idx,
               batch_started>>
pureVars == <<denied, probe_type, probe_out, probe_again, status_out, est_in,
              est_out>>
vars == <<envVars, callVars, histVars, uiVars, storeVars, cmdVars,
          pureVars, batchVars>>

Min(a, b) == IF a <= b THEN a ELSE b

(***************************************************************************)
(* File types and the host's tool locations.                               *)
(***************************************************************************)
\* The keys of COMPILERS and of the dispatch table of Compiler.compile.
SupportedTypes ==
    {"ps1", "py", "bat", "cmd", "js", "vbs", "ahk", "cs", "go", "rb"}

\* File types that are not keys of the table (inputs of the model).
OtherTypes == {"txt", "exe"}

\* COMPILERS[ft]: the display name and the compiler of each type.
COMPILERS(ft) ==
    CASE ft = "ps1" -> [name |-> "PowerShell", compiler |-> "PS2EXE"]
      [] ft = "py"  -> [name |-> "Python", compiler |-> "PyInstaller"]
      [] ft = "bat" -> [name |-> "Batch", compiler |-> "IExpress"]
      [] ft = "cmd" -> [name |-> "Command", compiler |-> "IExpress"]
      [] ft = "js"  -> [name |-> "Node.js", compiler |-> "pkg"]
      [] ft = "vbs" -> [name |-> "VBScript", compiler |-> "IExpress"]
      [] ft = "ahk" -> [name |-> "AutoHotkey", compiler |-> "Ahk2Exe"]
      [] ft = "cs"  -> [name |-> "C#", compiler |-> "CSC"]
      [] ft = "go"  -> [name |-> "Go", compiler |-> "go build"]
      [] ft = "rb"  -> [name |-> "Ruby", compiler |-> "Ocra"]

\* Locations of the host a tool can be at.  "powershell", "pyinstaller",
\* "pkg", "go", "ocra" are names looked up on PATH; "ps2exe" is the
\* PowerShell module; the others are the fixed installation paths.
Locations ==
    {"powershell", "ps2exe", "pyinstaller", "pkg", "ocra", "go", "go_local",
     "ahk_pf", "ahk_pf_v2", "ahk_pf86", "csc64", "csc32", "iexpress"}

\* The locations at which the toolchain of a type can be installed.
ToolLocations(ft) ==
    CASE ft = "ps1" -> {"ps2exe"}
      [] ft = "py"  -> {"pyinstaller"}
      [] ft \in {"bat", "cmd", "vbs"} -> {"iexpress"}
      [] ft = "js"  -> {"pkg"}
      [] ft = "ahk" -> {"ahk_pf", "ahk_pf_v2", "ahk_pf86"}
      [] ft = "cs"  -> {"csc64", "csc32"}
      [] ft = "go"  -> {"go", "go_local"}
      [] ft = "rb"  -> {"ocra"}
      [] OTHER -> {}

\* The locations a build of the type reads (the toolchain and its launcher).
LocationsOf(ft) ==
    IF ft = "ps1" THEN {"powershell", "ps2exe"} ELSE ToolLocations(ft)

\* The toolchain of the type is at none of its locations.
ToolchainAbsent(ft, h) == ToolLocations(ft) \cap h = {}

\* next((p for p in paths if exists(p)), None): the first existing path, or "".
RECURSIVE FirstExisting(_, _)
FirstExisting(paths, h) ==
    IF paths = <<>> THEN ""
    ELSE IF Head(paths) \in h THEN Head(paths)
    ELSE FirstExisting(Tail(paths), h)

(***************************************************************************)
(* DependencyChecker.                                                      *)
(***************************************************************************)
check_ps2exe(h) == "powershell" \in h /\ "ps2exe" \in h
check_pyinstaller(h) == "pyinstaller" \in h
check_pkg(h) == "pkg" \in h
check_go(h) == IF "go" \in h THEN TRUE ELSE "go_local" \in h
check_ruby(h) == "ocra" \in h
check_ahk(h) == \E p \in {"ahk_pf", "ahk_pf_v2", "ahk_pf86"} : p \in h
check_csc(h) == \E p \in {"csc64", "csc32"} : p \in h
check_iexpress(h) == "iexpress" \in h

check_compiler(ft, h) ==
    CASE ft = "ps1" -> check_ps2exe(h)
      [] ft = "py"  -> check_pyinstaller(h)
      [] ft \in {"bat", "cmd", "vbs"} -> check_iexpress(h)
      [] ft = "js"  -> check_pkg(h)
      [] ft = "ahk" -> check_ahk(h)
      [] ft = "cs"  -> check_csc(h)
      [] ft = "go"  -> check_go(h)
      [] ft = "rb"  -> check_ruby(h)
      [] OTHER -> FALSE

(***************************************************************************)
(* DependencyChecker with the failures of its probes.  The outcome of a    *)
(* call is "True", "False" or "raised" (an exception reaches the caller).  *)
(***************************************************************************)
Outcome(b) == IF b THEN "True" ELSE "False"

\* Path(p).exists(): pathlib passes on every OSError of os.stat other than
\* "no such file": a permission error is raised to the caller.
PathExists(p, h, dn) == IF p \in dn THEN "raised" ELSE Outcome(p \in h)

\* any(p.exists() for p in paths): the paths in order, up to the first
\* that exists or whose probe raises.
RECURSIVE AnyExists(_, _, _)
AnyExists(paths, h, dn) ==
    IF paths = << >> THEN "False"
    ELSE IF PathExists(Head(paths), h, dn) = "False"
    THEN AnyExists(Tail(paths), h, dn)
    ELSE PathExists(Head(paths), h, dn)

\* The outcomes of the eight probes.  check_ps2exe catches every exception
\* of its subprocess.run; the shutil.which probes only read PATH.
ps2exe_outcome(h, dn) == Outcome(check_ps2exe(h))
pyinstaller_outcome(h, dn) == Outcome(check_pyinstaller(h))
pkg_outcome(h, dn) == Outcome(check_pkg(h))
ruby_outcome(h, dn) == Outcome(check_ruby(h))
go_outcome(h, dn) ==
    IF "go" \in h THEN "True" ELSE AnyExists(<<"go_local">>, h, dn)
ahk_outcome(h, dn) == AnyExists(<<"ahk_pf", "ahk_pf_v2", "ahk_pf86">>, h, dn)
csc_outcome(h, dn) == AnyExists(<<"csc64", "csc32">>, h, dn)
iexpress_outcome(h, dn) == AnyExists(<<"iexpress">>, h, dn)

\* check_compiler(file_type): checker() if checker else False
check_compiler_outcome(ft, h, dn) ==
    CASE ft = "ps1" -> ps2exe_outcome(h, dn)
      [] ft = "py"  -> pyinstaller_outcome(h, dn)
      [] ft \in {"bat", "cmd", "vbs"} -> iexpress_outcome(h, dn)
      [] ft = "js"  -> pkg_outcome(h, dn)
      [] ft = "ahk" -> ahk_outcome(h, dn)
      [] ft = "cs"  -> csc_outcome(h, dn)
      [] ft = "go"  -> go_outcome(h, dn)
      [] ft = "rb"  -> ruby_outcome(h, dn)
      [] OTHER -> "False"

\* get_all_status(): the "installed" field of each of its eight entries;
\* it raises when one of the probes it calls raises.
StatusNames ==
    {"PS2EXE", "PyInstaller", "pkg", "Go", "Ruby", "AutoHotkey", "CSC",
     "IExpress"}
StatusProbe(name, h, dn) ==
    CASE name = "PS2EXE" -> ps2exe_outcome(h, dn)
      [] name = "PyInstaller" -> pyinstaller_outcome(h, dn)
      [] name = "pkg" -> pkg_outcome(h, dn)
      [] name = "Go" -> go_outcome(h, dn)
      [] name = "Ruby" -> ruby_outcome(h, dn)
      [] name = "AutoHotkey" -> ahk_outcome(h, dn)
      [] name = "CSC" -> csc_outcome(h, dn)
      [] name = "IExpress" -> iexpress_outcome(h, dn)
NoStatus == [raised |-> FALSE, installed |-> << >>]
get_all_status(h, dn) ==
    IF \E name \in StatusNames : StatusProbe(name, h, dn) = "raised"
    THEN [raised |-> TRUE, installed |-> << >>]
    ELSE [raised |-> FALSE,
          installed |-> [name \in StatusNames |->
                            StatusProbe(name, h, dn) = "True"]]

(***************************************************************************)
(* format_size and estimate_output_size.  A size text is the number it     *)
(* shows and its unit; the number of a KB, MB or GB text is in tenths.     *)
(***************************************************************************)
KiB == 1024
MiB == 1024 * 1024
GiB == 1024 * 1024 * 1024

\* f"{size / unit:.1f}": the quotient in tenths, rounded to the nearest,
\* a tie to the even one.
Tenths(size, unit) ==
    LET q == (size * 10) \div unit
        r == (size * 10) % unit
    IN  IF 2 * r > unit \/ (2 * r = unit /\ q % 2 = 1) THEN q + 1 ELSE q

format_size(size) ==
    IF size >= GiB THEN [number |-> Tenths(size, GiB), unit |-> "GB"]
    ELSE IF size >= MiB THEN [number |-> Tenths(size, MiB), unit |-> "MB"]
    ELSE IF size >= KiB THEN [number |-> Tenths(size, KiB), unit |-> "KB"]
    ELSE [number |-> size, unit |-> "bytes"]

\* The text "Unknown".
Unknown == [number |-> 0, unit |-> "Unknown"]

\* estimates: the base and the multiplier (in tenths) of each type.
EstimateTypes == {"ps1", "py", "bat", "cmd", "js", "vbs", "ahk", "cs", "go", "rb"}
estimates(ft) ==
    CASE ft = "ps1" -> [base |-> 5 * MiB, tenths |-> 15]
      [] ft = "py"  -> [base |-> 15 * MiB, tenths |-> 20]
      [] ft \in {"bat", "cmd", "vbs"} -> [base |-> 50 * KiB, tenths |-> 12]
      [] ft = "js"  -> [base |-> 40 * MiB, tenths |-> 15]
      [] ft = "ahk" -> [base |-> 1 * MiB, tenths |-> 13]
      [] ft = "cs"  -> [base |-> 10 * KiB, tenths |-> 11]
      [] ft = "go"  -> [base |-> 2 * MiB, tenths |-> 12]
      [] ft = "rb"  -> [base |-> 20 * MiB, tenths |-> 20]

\* int(base + source_size * multiplier)
ProjectedBytes(ft, source_size) ==
    estimates(ft).base + (source_size * estimates(ft).tenths) \div 10

\* A plausible slip: no look at the file before its size is taken.
estimate_unchecked(exists, source_size, ft) ==
    IF ft \in EstimateTypes
    THEN format_size(ProjectedBytes(ft, source_size))
    ELSE Unknown

\* estimate_output_size(source_file, file_type), for a source file that
\* exists or not and has source_size bytes.
estimate_output_size(exists, source_size, ft) ==
    IF ~exists THEN Unknown
    ELSE IF ft \in EstimateTypes
    THEN format_size(ProjectedBytes(ft, source_size))
    ELSE Unknown

(***************************************************************************)
(* run_command.                                                            *)
(***************************************************************************)
\* What a finished external process can have printed.
StdoutTexts == {<<>>, <<"error: failed">>}
StderrTexts == {<<>>, <<"SyntaxError: line 4">>}
ExitCodes == 0..MaxExit

\* subprocess.run did not return: it raised (the text is str(e)).
SpawnFailed == [spawned |-> FALSE, code |-> -1, stdout |-> <<>>,
                stderr |-> <<>>, error |-> <<"spawn error">>]

\* subprocess.run returned a CompletedProcess.
Completed(code, out, err) ==
    [spawned |-> TRUE, code |-> code, stdout |-> out, stderr |-> err,
     error |-> <<>>]

NoProc == [spawned |-> FALSE, code |-> -1, stdout |-> <<>>, stderr |-> <<>>,
           error |-> <<>>]
NoResult == [ok |-> FALSE, text |-> <<>>]

\* A plausible slip: success read off the captured text, streams swapped.
run_command_by_text(p) ==
    IF p.spawned
    THEN [ok |-> p.stderr = <<>>, text |-> p.stderr \o p.stdout]
    ELSE [ok |-> FALSE, text |-> p.error]

\* The pair run_command returns for what subprocess.run did.
run_command_result(p) ==
    IF p.spawned
    THEN [ok |-> p.code = 0, text |-> p.stdout \o p.stderr]
    ELSE [ok |-> FALSE, text |-> p.error]

(***************************************************************************)
(* Compiler.compile: the dispatch table and the strategies.                *)
(*                                                                         *)
(* A call is a record st: its position pc, its arguments req, the locals   *)
(* of compile_batch, the pair computed so far, and the part of the host    *)
(* the call changes (dirs, fsOut).  Each step_ operator gives the states   *)
(* one statement can lead to; h is the host's tools, files its sources.    *)
(***************************************************************************)
\* A plausible slip: a lookup with a default strategy.
StrategyWithDefault(ft) ==
    CASE ft = "ps1" -> "compile_ps1"
      [] ft = "py"  -> "compile_py"
      [] ft = "js"  -> "compile_js"
      [] ft = "ahk" -> "compile_ahk"
      [] ft = "cs"  -> "compile_cs"
      [] ft = "go"  -> "compile_go"
      [] ft = "rb"  -> "compile_rb"
      [] OTHER -> "compile_batch"

\* compilers.get(file_type): the strategy of the type, "" for None.
Strategy(ft) ==
    CASE ft = "ps1" -> "compile_ps1"
      [] ft = "py"  -> "compile_py"
      [] ft \in {"bat", "cmd", "vbs"} -> "compile_batch"
      [] ft = "js"  -> "compile_js"
      [] ft = "ahk" -> "compile_ahk"
      [] ft = "cs"  -> "compile_cs"
      [] ft = "go"  -> "compile_go"
      [] ft = "rb"  -> "compile_rb"
      [] OTHER -> ""

\* compile_cs: the first existing of csc_paths, "" for None.
compile_cs_tool(h) == FirstExisting(<<"csc64", "csc32">>, h)

\* compile_go: which("go"), else the LOCALAPPDATA path if it exists, else "".
compile_go_tool(h) ==
    IF "go" \in h THEN "go"
    ELSE IF "go_local" \in h THEN "go_local" ELSE ""

\* compile_ahk: the first existing of ahk_paths, "" for None.
compile_ahk_tool(h) == FirstExisting(<<"ahk_pf", "ahk_pf_v2">>, h)

\* cmd[0] of the command the strategy hands to run_command ("" when the
\* strategy found no tool and returns before run_command).
Executable(ft, h) ==
    CASE Strategy(ft) = "compile_ps1" -> "powershell"
      [] Strategy(ft) = "compile_py" -> "pyinstaller"
      [] Strategy(ft) = "compile_batch" -> "iexpress"
      [] Strategy(ft) = "compile_js" -> "pkg"
      [] Strategy(ft) = "compile_rb" -> "ocra"
      [] Strategy(ft) = "compile_cs" -> compile_cs_tool(h)
      [] Strategy(ft) = "compile_go" -> compile_go_tool(h)
      [] Strategy(ft) = "compile_ahk" -> compile_ahk_tool(h)
      [] OTHER -> ""

\* The text a strategy returns when it found no tool.
NotFoundText(ft) ==
    CASE ft = "cs"  -> <<"CSC", " compiler not found">>
      [] ft = "go"  -> <<"Go", " compiler not found">>
      [] ft = "ahk" -> <<"AutoHotkey", " compiler not found">>
      [] OTHER -> <<>>

\* f"Unsupported file type: {file_type}"
UnsupportedText(ft) == <<"Unsupported file type: ", ft>>

\* Where control goes when a statement inside the try of compile_batch
\* raises: to the finally clause.  (The slip: no finally clause.)
batch_no_finally == "raised"
batch_on_exception == "finally"

NoReq == [source |-> "", output |-> "", file_type |-> ""]

\* Compiler.compile(source, output, file_type) is entered on a host whose
\* temporary directories are ds and whose output files are fs.
Enter(src, out, ft, ds, fs) ==
    [pc |-> "called",
     req |-> [source |-> src, output |-> out, file_type |-> ft],
     temp_dir |-> {}, wsFiles |-> {}, exc |-> FALSE, result |-> NoResult,
     proc |-> NoProc, spawns |-> 0, rmtree_outcome |-> "none",
     dirs_before |-> ds, dirs |-> ds, fsOut |-> fs]

\* The table lookup and the part of the strategy that precedes its first
\* action on the host: the unsupported-type return, and the tool search of
\* compile_cs, compile_go and compile_ahk.
step_dispatch(st, h) ==
    LET ft == st.req.file_type
        s == Strategy(ft)
    IN  IF s = ""
        THEN {[st EXCEPT !.pc = "returned",
                         !.result = [ok |-> FALSE,
                                     text |-> UnsupportedText(ft)]]}
        ELSE IF s = "compile_batch"
        THEN {[st EXCEPT !.pc = "mkdtemp"]}
        ELSE IF s \in {"compile_cs", "compile_go", "compile_ahk"}
                /\ Executable(ft, h) = ""
        THEN {[st EXCEPT !.pc = "returned",
                         !.result = [ok |-> FALSE,
                                     text |-> NotFoundText(ft)]]}
        ELSE {[st EXCEPT !.pc = "run"]}

\* The name tempfile.mkdtemp picks: one that is not in use.  Names are
\* interchangeable, the model takes the least free one ({} when none is).
FreshName(ds) ==
    {d \in (1..MaxTemp) \ ds : \A e \in (1..MaxTemp) \ ds : d <= e}

\* compile_batch: temp_dir = tempfile.mkdtemp(), before the try: a new
\* directory under a name not in use, or an exception with nothing to clean.
step_mkdtemp(st) ==
    {[st EXCEPT !.pc = "copy", !.temp_dir = {d}, !.dirs = @ \cup {d}] :
        d \in FreshName(st.dirs)}
        \cup {[st EXCEPT !.pc = "raised", !.exc = TRUE]}

\* compile_batch: shutil.copy(source, temp_dir/src_name): the copy is in
\* the workspace, or (always so when the source does not exist) it raises.
step_copy(st, files) ==
    (IF st.req.source \in files
     THEN {[st EXCEPT !.pc = "sed", !.wsFiles = {"source"}]}
     ELSE {})
        \cup {[st EXCEPT !.pc = batch_on_exception, !.exc = TRUE]}

\* A plausible slip: the packager is invoked before the directive is written.
step_sed_skipped(st) ==
    {[st EXCEPT !.pc = "run"],
     [st EXCEPT !.pc = batch_on_exception, !.exc = TRUE]}

\* compile_batch: config.sed is written into temp_dir, or open/write raises.
step_write_sed(st) ==
    {[st EXCEPT !.pc = "run", !.wsFiles = @ \cup {"config.sed"}],
     [st EXCEPT !.pc = batch_on_exception, !.exc = TRUE]}

\* What subprocess.run(cmd) can do and leave of the output file: the
\* process starts only if cmd[0] exists; started, it ends with any status
\* and any text, and may write the output file; or subprocess.run raises.
Spawn(st, h) ==
    (IF Executable(st.req.file_type, h) \in h
     THEN {[proc |-> Completed(code, out, err), fsOut |-> fs] :
              code \in ExitCodes, out \in StdoutTexts, err \in StderrTexts,
              fs \in {st.fsOut}
                  \cup {[st.fsOut EXCEPT ![st.req.output] = {n}] :
                           n \in 0..MaxSize}}
     ELSE {})
        \cup {[proc |-> SpawnFailed, fsOut |-> st.fsOut]}

\* run_command(cmd) called by a strategy: one subprocess.run attempt, and
\* the pair made of it; compile_batch then goes through its finally clause.
step_run(st, h) ==
    {[st EXCEPT !.spawns = @ + 1,
                !.proc = o.proc,
                !.fsOut = o.fsOut,
                !.result = run_command_result(o.proc),
                !.pc = IF Strategy(st.req.file_type) = "compile_batch"
                       THEN "finally" ELSE "returned"] :
        o \in Spawn(st, h)}

\* compile_batch: finally: shutil.rmtree(temp_dir, ignore_errors=True).
\* A removal that fails is ignored and leaves the directory with what is
\* left of its content; then the pending return or exception proceeds.
step_finally(st) ==
    LET after == IF st.exc THEN "raised" ELSE "returned"
    IN  {[st EXCEPT !.pc = after, !.rmtree_outcome = "removed",
                    !.dirs = @ \ st.temp_dir, !.wsFiles = {}]}
            \cup {[st EXCEPT !.pc = after, !.rmtree_outcome = "failed",
                             !.wsFiles = left] : left \in SUBSET st.wsFiles}

\* The states the next statement of the call can lead to.
Steps(st, h, files) ==
    CASE st.pc = "called"  -> step_dispatch(st, h)
      [] st.pc = "mkdtemp" -> step_mkdtemp(st)
      [] st.pc = "copy"    -> step_copy(st, files)
      [] st.pc = "sed"     -> step_write_sed(st)
      [] st.pc = "run"     -> step_run(st, h)
      [] st.pc = "finally" -> step_finally(st)
      [] OTHER -> {}

\* The states in which the call can end: it returned its pair, or raised.
RECURSIVE Run(_, _, _)
Run(st, h, files) ==
    IF st.pc \in {"returned", "raised"} THEN {st}
    ELSE UNION {Run(n, h, files) : n \in Steps(st, h, files)}

\* The call in progress, as a record, and the variables set from one.
CallState ==
    [pc |-> cpc, req |-> req, temp_dir |-> temp_dir, wsFiles |-> wsFiles,
     exc |-> exc, result |-> result, proc |-> proc, spawns |-> spawns,
     rmtree_outcome |-> rmtree_outcome, dirs_before |-> dirs_before,
     dirs |-> dirs, fsOut |-> fsOut]

SetCallState(st) ==
    /\ cpc' = st.pc
    /\ req' = st.req
    /\ temp_dir' = st.temp_dir
    /\ wsFiles' = st.wsFiles
    /\ exc' = st.exc
    /\ result' = st.result
    /\ proc' = st.proc
    /\ spawns' = st.spawns
    /\ rmtree_outcome' = st.rmtree_outcome
    /\ dirs_before' = st.dirs_before
    /\ dirs' = st.dirs
    /\ fsOut' = st.fsOut

(***************************************************************************)
(* CompilationHistory, load_json, save_json.                               *)
(***************************************************************************)
\* A backing file is missing, holds text that is not JSON, or holds data.
MissingFile == [kind |-> "missing", data |-> <<>>]
CorruptFile == [kind |-> "corrupt", data |-> <<>>]
JsonFile(data) == [kind |-> "json", data |-> data]

\* A plausible slip: the file is not read.
load_json_default(f, default) == default

\* load_json(filepath, default).
load_json(f, default) == IF f.kind = "json" THEN f.data ELSE default

\* What save_json(filepath, data) does: the data is written whole; or an
\* exception is caught and printed, before the file was opened ("failed",
\* the old file stays) or after it was truncated ("cut").
SaveOutcomes == {"written", "failed", "cut"}

\* A plausible slip: the file is written only when there is none yet.
WrittenIfAbsent(f, data, o) ==
    CASE o = "written" /\ f.kind = "missing" -> JsonFile(data)
      [] o = "cut" -> CorruptFile
      [] OTHER -> f

Written(f, data, o) ==
    CASE o = "written" -> JsonFile(data)
      [] o = "failed" -> f
      [] OTHER -> CorruptFile

\* The files save_json(filepath, data) can leave.
save_json(f, data) == {Written(f, data, o) : o \in SaveOutcomes}

\* The entry CompilationHistory.add builds; datetime.now() is the clock.
Entry(ts, src, out, ft, success, profile, size) ==
    [timestamp |-> ts, source |-> src, output |-> out, type |-> ft,
     success |-> success, profile |-> profile, size |-> size]

\* Plausible slips: no cap; the entry appended and the cap cut at the front.
HistoryAddNoCap(h, e, m) == <<e>> \o h
HistoryAddAtEnd(h, e, m) ==
    LET all == h \o <<e>>
    IN  SubSeq(all, Len(all) - Min(Len(all), m) + 1, Len(all))

\* self._history.insert(0, entry); self._history = self._history[:max_items]
HistoryAdd(h, e, m) == SubSeq(<<e>> \o h, 1, Min(Len(h) + 1, m))

\* CompilationHistory.add(source, output, file_type, success, profile, size),
\* its save included.
history_add(src, out, ft, success, profile, size) ==
    /\ history' = HistoryAdd(history,
                      Entry(clock, src, out, ft, success, profile, size),
                      max_items)
    /\ \E o \in SaveOutcomes :
          /\ history_file' = Written(history_file, history', o)
          /\ save_outcome' = o
    /\ clock' = clock + 1
    /\ adds' = adds + 1
    /\ UNCHANGED max_items

\* The k entries of an earlier run, newest first, timestamps k-1 .. 0.
Preloaded(k) ==
    [i \in 1..k |-> Entry(k - i, "a.py", "a.exe", "py", FALSE, "Default", 0)]

\* CompilationHistory(max_items): load() takes the file's list whole.
InitHistory ==
    /\ max_items \in 1..MaxCap
    /\ history_file \in
          {MissingFile, CorruptFile}
              \cup {JsonFile(Preloaded(k)) : k \in 0..MaxPreload}
    /\ history = load_json(history_file, <<>>)
    /\ clock = Len(history)
    /\ adds = 0

(***************************************************************************)
(* The stores Settings, RecentFiles and BuildProfiles.  json.dump and      *)
(* json.load carry dicts with string keys, lists, strings, booleans and    *)
(* integers unchanged, so a file that was written holds the data itself.   *)
(* The empty dict, like the empty list, is << >>.                          *)
(***************************************************************************)
\* save_json(filepath, data) called by a store's save(): the file it
\* leaves in f2 and the outcome, which the model keeps.
Save(f, f2, data) ==
    \E o \in SaveOutcomes :
       /\ f2 = Written(f, data, o)
       /\ save_outcome' = o

DEFAULT_SETTINGS ==
    [theme |-> "Dark",
     post_build_action |-> "None",
     post_build_copy_path |-> "",
     show_notifications |-> TRUE,
     auto_check_updates |-> TRUE,
     max_recent_files |-> 10,
     max_history_items |-> 50,
     default_profile |-> "Default",
     signing_cert_path |-> "",
     signing_cert_password |-> ""]

\* Plausible slips: the file's dict taken whole; every key of it taken.
SettingsLoadReplace(s, saved) == saved
SettingsLoadAllKeys(s, saved) ==
    [k \in DOMAIN s \cup DOMAIN saved |->
        IF k \in DOMAIN saved THEN saved[k] ELSE s[k]]

\* Settings.load: for key, value in saved.items():
\*                    if key in self._settings: self._settings[key] = value
SettingsLoad(s, saved) ==
    [k \in DOMAIN s |-> IF k \in DOMAIN saved THEN saved[k] ELSE s[k]]

\* Settings.set and the theme setter: self._settings[key] = value
SettingsSet(s, key, value) ==
    [k \in DOMAIN s \cup {key} |-> IF k = key THEN value ELSE s[k]]

\* Settings(): the defaults, then load().
SettingsNew(f) == SettingsLoad(DEFAULT_SETTINGS, load_json(f, << >>))

\* The dicts a settings.json can hold at start: any of two schema keys and
\* of one key the schema does not have.
StoredValue ==
    [theme |-> "Light", default_profile |-> "Console App",
     window |-> "800x600"]
StoredSettings ==
    {[k \in D |-> StoredValue[k]] : D \in SUBSET (DOMAIN StoredValue)}
SettingsFiles ==
    {MissingFile, CorruptFile} \cup {JsonFile(d) : d \in StoredSettings}

\* The (key, value) pairs Settings.set is called with.
SettingsUpdates ==
    {<<"theme", "Light">>, <<"default_profile", "Admin Tool">>,
     <<"window", "1024x768">>}

\* self._files[:self.max_items] and the like
Take(s, n) == SubSeq(s, 1, Min(Len(s), n))

\* list.remove(x): the first occurrence goes
RemoveFirst(s, x) ==
    LET i == CHOOSE i \in 1..Len(s) :
                 s[i] = x /\ \A j \in 1..(i - 1) : s[j] # x
    IN  SubSeq(s, 1, i - 1) \o SubSeq(s, i + 1, Len(s))

\* A plausible slip: the stored list taken without looking at the files.
RecentLoadUnfiltered(saved, existing, m) == Take(saved, m)

\* RecentFiles.load:
\*   self._files = [f for f in saved if os.path.exists(f)][:self.max_items]
RecentLoad(saved, existing, m) ==
    LET exists(f) == f \in existing
    IN  Take(SelectSeq(saved, exists), m)

\* A plausible slip: the path inserted without removing it.
RecentAddNoRemove(fs, p, m) == Take(<<p>> \o fs, m)

\* RecentFiles.add(filepath), before its save.
RecentAdd(fs, p, m) ==
    LET rest == IF \E i \in 1..Len(fs) : fs[i] = p
                THEN RemoveFirst(fs, p) ELSE fs
    IN  Take(<<p>> \o rest, m)

\* RecentFiles(max_items): load().
RecentNew(f, existing, m) == RecentLoad(load_json(f, << >>), existing, m)

\* The lists a recent.json can hold at start.
RECURSIVE SeqsUpTo(_, _)
SeqsUpTo(S, n) ==
    IF n = 0 THEN {<< >>}
    ELSE LET shorter == SeqsUpTo(S, n - 1)
         IN  shorter \cup {<<x>> \o s : x \in S, s \in shorter}

\* A build profile; the model varies its two flags.
Profile(console, admin) ==
    [console |-> console, admin |-> admin, single_file |-> TRUE,
     version |-> "1.0.0.0", company |-> "", copyright |-> "",
     description |-> "", product |-> ""]

BuiltinNames == {"Default", "Console App", "Admin Tool", "GUI Application"}

DEFAULT_PROFILES ==
    [n \in BuiltinNames |->
        CASE n = "Default" -> Profile(FALSE, FALSE)
          [] n = "Console App" -> Profile(TRUE, FALSE)
          [] n = "Admin Tool" -> Profile(TRUE, TRUE)
          [] OTHER -> Profile(FALSE, FALSE)]

\* A plausible slip: the file's dict in place of the built-in one.
ProfilesLoadReplace(ps, saved) == IF DOMAIN saved = {} THEN ps ELSE saved

\* BuildProfiles.load: for name, profile in saved.items():
\*                         self._profiles[name] = profile
ProfilesLoad(ps, saved) ==
    [n \in DOMAIN ps \cup DOMAIN saved |->
        IF n \in DOMAIN saved THEN saved[n] ELSE ps[n]]

\* BuildProfiles.set: self._profiles[name] = profile
ProfilesSet(ps, name, profile) ==
    [n \in DOMAIN ps \cup {name} |-> IF n = name THEN profile ELSE ps[n]]

\* BuildProfiles.names()
names == DOMAIN profiles

\* BuildProfiles(): the built-in profiles, then load().
ProfilesNew(f) == ProfilesLoad(DEFAULT_PROFILES, load_json(f, << >>))

\* The names _save_profile saves under, and what a profiles.json can hold
\* at start.
SetNames == {"Default", "Custom"}
StoredProfiles ==
    {[n \in D |-> Profile(TRUE, TRUE)] : D \in SUBSET SetNames}
ProfilesFiles ==
    {MissingFile, CorruptFile} \cup {JsonFile(d) : d \in StoredProfiles}

\* CompilationHistory(max_items): load().
HistoryNew(f) == load_json(f, << >>)

(***************************************************************************)
(* UniversalCompiler: _load_file, _compile and its worker compile_thread.  *)
(***************************************************************************)
\* The source files of the model and the output paths proposed for them.
Sources == {"a.py", "b.bat", "c.txt"}
Outputs == {"a.exe", "b.exe"}

\* os.path.splitext(filepath)[1].lstrip(".").lower()
Ext(f) ==
    CASE f = "a.py" -> "py" [] f = "b.bat" -> "bat" [] OTHER -> "txt"

\* The output path _load_file proposes: the source's name with .exe.
OutputOf(f) == IF f = "a.py" THEN "a.exe" ELSE "b.exe"

\* A plausible slip: the strategy's word taken without looking at the file.
BuildSucceededByFlag(ok, out, fs) == ok

\* compile_thread: success and os.path.exists(output_path).
BuildSucceeded(ok, out, fs) == ok /\ fs[out] # {}

\* os.path.getsize(output_path), asked of a file that exists.
getsize(out, fs) == IF fs[out] = {} THEN 0 ELSE CHOOSE n \in fs[out] : TRUE

\* _load_file(filepath), from the browse dialog, the recent menu or a drop.
\* Its self.recent_files.add(filepath) is the step recent_add: the recent
\* files are read by no step of the build, and are left out here.
load_file ==
    \E f \in Sources :
      /\ IF f \notin srcFiles
         THEN UNCHANGED <<source_file, file_type, output_entry, compile_btn>>
         ELSE /\ source_file' = f
              /\ IF Ext(f) \in SupportedTypes
                 THEN /\ file_type' = Ext(f)
                      /\ output_entry' = OutputOf(f)
                      /\ compile_btn' = check_compiler(Ext(f), host)
                 ELSE /\ file_type' = ""
                      /\ compile_btn' = FALSE
                      /\ UNCHANGED output_entry
      /\ UNCHANGED <<envVars, callVars, histVars, compiling, wpc, w_output,
                     w_success, builds, storeVars, cmdVars, batchVars, pureVars>>

\* A plausible slip: _compile does not look at the flag.
compile_refused_no_flag(c, s, t) == s = "" \/ t = ""

\* _compile: if self.compiling or not self.source_file or not self.file_type
compile_refused(c, s, t) == c \/ s = "" \/ t = ""

\* _compile(), the command of the Compile button: it returns at once while
\* a build is running or nothing is loaded; otherwise it sets the flag,
\* fixes the output path and starts the worker thread.
compile_clicked ==
    /\ compile_btn
    /\ compiling \/ builds < MaxBuilds
    /\ IF compile_refused(compiling, source_file, file_type)
       THEN UNCHANGED <<compiling, compile_btn, w_output, wpc, builds>>
       ELSE /\ compiling' = TRUE
            /\ compile_btn' = FALSE
            /\ w_output' = output_entry
            /\ wpc' = "started"
            /\ builds' = builds + 1
    /\ UNCHANGED <<envVars, callVars, histVars, source_file, file_type,
                   output_entry, w_success, storeVars, cmdVars, batchVars, pureVars>>

\* compile_thread: success, output = Compiler.compile(self.source_file,
\* output_path, self.file_type, ...), with the fields as they are when the
\* worker gets there.  The call touches nothing the UI thread touches, so
\* it is one step here; an exception it raises ends the thread.
worker_call ==
    /\ wpc = "started"
    /\ \E fin \in Run(Enter(source_file, w_output, file_type, dirs, fsOut),
                      host, srcFiles) :
          /\ dirs' = fin.dirs
          /\ fsOut' = fin.fsOut
          /\ IF fin.pc = "raised"
             THEN /\ wpc' = "dead"
                  /\ UNCHANGED w_success
             ELSE /\ wpc' = "returned"
                  /\ w_success' = fin.result.ok
    /\ UNCHANGED <<host, srcFiles, callVars, histVars, source_file, file_type,
                   output_entry, compile_btn, compiling, w_output, builds,
                   storeVars, cmdVars, batchVars, pureVars>>

\* compile_thread after Compiler.compile returned: the history entry of
\* the success branch or of the failure branch.
worker_record ==
    /\ wpc = "returned"
    /\ IF BuildSucceeded(w_success, w_output, fsOut)
       THEN /\ history_add(source_file, w_output, file_type, TRUE, "Default",
                           getsize(w_output, fsOut))
            /\ wpc' = "postbuild"
       ELSE /\ history_add(source_file, w_output, file_type, FALSE,
                           "Default", 0)
            /\ wpc' = "finish"
    /\ UNCHANGED <<envVars, callVars, source_file, file_type, output_entry,
                   compile_btn, compiling, w_output, w_success, builds,
                   otherStoreVars, cmdVars, batchVars, pureVars>>

\* compile_thread, success branch: the post-build action (os.startfile,
\* shutil.copy) is done, or raises and ends the thread.
worker_postbuild ==
    /\ wpc = "postbuild"
    /\ wpc' \in {"finish", "dead"}
    /\ UNCHANGED <<envVars, callVars, histVars, source_file, file_type,
                   output_entry, compile_btn, compiling, w_output, w_success,
                   builds, storeVars, cmdVars, batchVars, pureVars>>

\* compile_thread, last statements: self.compiling = False, button enabled.
worker_finish ==
    /\ wpc = "finish"
    /\ compiling' = FALSE
    /\ compile_btn' = TRUE
    /\ wpc' = "none"
    /\ UNCHANGED <<envVars, callVars, histVars, source_file, file_type,
                   output_entry, w_output, w_success, builds, storeVars,
                   cmdVars, batchVars, pureVars>>

(***************************************************************************)
(* The batch queue and _compile_all.  _compile_all runs on the UI thread:  *)
(* between two of its waits no other handler runs; while it waits it calls *)
(* root.update(), which runs the handlers of the pending events.           *)
(***************************************************************************)
IdleBatch ==
    /\ batch_queue = << >>
    /\ compile_all_btn = TRUE
    /\ ca_pc = "idle"
    /\ ca_items = << >>
    /\ ca_idx = 0
    /\ batch_started = << >>

\* The fields of the application _compile_all reads and writes.
UiState ==
    [source_file |-> source_file, file_type |-> file_type,
     output_entry |-> output_entry, compile_btn |-> compile_btn,
     compiling |-> compiling, wpc |-> wpc, w_output |-> w_output,
     builds |-> builds, ca_pc |-> ca_pc, ca_idx |-> ca_idx,
     batch_started |-> batch_started]

SetUiState(ui) ==
    /\ source_file' = ui.source_file
    /\ file_type' = ui.file_type
    /\ output_entry' = ui.output_entry
    /\ compile_btn' = ui.compile_btn
    /\ compiling' = ui.compiling
    /\ wpc' = ui.wpc
    /\ w_output' = ui.w_output
    /\ builds' = ui.builds
    /\ ca_pc' = ui.ca_pc
    /\ ca_idx' = ui.ca_idx
    /\ batch_started' = ui.batch_started

\* self._load_file(filepath), as in load_file.
Loaded(ui, f, files, h) ==
    IF f \notin files THEN ui
    ELSE IF Ext(f) \in SupportedTypes
    THEN [ui EXCEPT !.source_file = f, !.file_type = Ext(f),
                    !.output_entry = OutputOf(f),
                    !.compile_btn = check_compiler(Ext(f), h)]
    ELSE [ui EXCEPT !.source_file = f, !.file_type = "",
                    !.compile_btn = FALSE]

\* self._compile() for the file at index i, as in compile_clicked.
Compiled(ui, i) ==
    IF compile_refused(ui.compiling, ui.source_file, ui.file_type) THEN ui
    ELSE [ui EXCEPT !.compiling = TRUE, !.compile_btn = FALSE,
                    !.w_output = ui.output_entry, !.wpc = "started",
                    !.builds = @ + 1, !.batch_started = Append(@, i)]

\* The for loop from the file at index i on, up to its next wait or its
\* end: each file is loaded; if it has a type whose compiler is there,
\* _compile() is called and the loop waits.
RECURSIVE Advance(_, _, _, _, _)
Advance(ui, items, i, files, h) ==
    IF i > Len(items) THEN [ui EXCEPT !.ca_pc = "done", !.ca_idx = i]
    ELSE LET l == Loaded(ui, items[i], files, h)
         IN  IF l.file_type # "" /\ check_compiler(l.file_type, h)
             THEN [Compiled(l, i) EXCEPT !.ca_pc = "wait", !.ca_idx = i]
             ELSE Advance(l, items, i + 1, files, h)

\* The loop is over: self.batch_queue.clear().
QueueAfter(ui, q) == IF ui.ca_pc = "done" THEN << >> ELSE q

\* _compile_all(), the command of the Compile All button.
compile_all_clicked ==
    /\ compile_all_btn
    /\ ca_pc = "idle"
    /\ batch_queue # << >>
    /\ compile_all_btn' = FALSE
    /\ ca_items' = batch_queue
    /\ LET ui == Advance(UiState, batch_queue, 1, srcFiles, host)
       IN  /\ SetUiState(ui)
           /\ batch_queue' = QueueAfter(ui, batch_queue)
    /\ UNCHANGED <<envVars, callVars, histVars, w_success, storeVars,
                   cmdVars, pureVars>>

\* A plausible slip: the loop goes on without waiting.
wait_over_at_once(c) == TRUE

\* while self.compiling: self.root.update()
wait_over(c) == ~c

\* _compile_all, after its wait: done += 1 and the next files.
compile_all_resume ==
    /\ ca_pc = "wait"
    /\ wait_over(compiling)
    /\ LET ui == Advance(UiState, ca_items, ca_idx + 1, srcFiles, host)
       IN  /\ SetUiState(ui)
           /\ batch_queue' = QueueAfter(ui, batch_queue)
    /\ UNCHANGED <<envVars, callVars, histVars, w_success, storeVars,
                   cmdVars, pureVars, compile_all_btn, ca_items>>

\* _add_to_queue(), for one file picked in the dialog.
add_to_queue ==
    /\ Len(batch_queue) < MaxQueue
    /\ \E f \in Sources :
          /\ \A i \in 1..Len(batch_queue) : batch_queue[i] # f
          /\ batch_queue' = Append(batch_queue, f)
    /\ UNCHANGED <<envVars, callVars, histVars, uiVars, storeVars, cmdVars,
                   pureVars, compile_all_btn, ca_pc, ca_items, ca_idx,
                   batch_started>>

\* _on_drop(event) with two files: both are appended.
on_drop ==
    /\ Len(batch_queue) + 2 <= MaxQueue
    /\ \E f \in Sources, g \in Sources :
          /\ f # g
          /\ batch_queue' = batch_queue \o <<f, g>>
    /\ UNCHANGED <<envVars, callVars, histVars, uiVars, storeVars, cmdVars,
                   pureVars, compile_all_btn, ca_pc, ca_items, ca_idx,
                   batch_started>>

(***************************************************************************)
(* The calls of the stores.  A behaviour of SpecStores works on one store. *)
(***************************************************************************)
StoreNames == {"settings", "recent", "profiles", "history"}

\* The backing file of the store at work.
ActiveFile ==
    CASE store = "settings" -> settings_file
      [] store = "recent" -> recent_file
      [] store = "profiles" -> profiles_file
      [] OTHER -> history_file

\* The in-memory content of the store at work, and what a new store
\* constructed from its backing file would hold.
ActiveMemory ==
    CASE store = "settings" -> settings
      [] store = "recent" -> recent_files
      [] store = "profiles" -> profiles
      [] OTHER -> history

ActiveNew ==
    CASE store = "settings" -> SettingsNew(settings_file)
      [] store = "recent" -> RecentNew(recent_file, srcFiles, recent_max)
      [] store = "profiles" -> ProfilesNew(profiles_file)
      [] OTHER -> HistoryNew(history_file)

\* The in-memory default of the store at work.
ActiveDefault ==
    CASE store = "settings" -> DEFAULT_SETTINGS
      [] store = "profiles" -> DEFAULT_PROFILES
      [] OTHER -> << >>

\* Settings.set(key, value): the assignment, then save().
settings_set ==
    /\ store = "settings"
    /\ sops < MaxOps
    /\ \E u \in SettingsUpdates :
          settings' = SettingsSet(settings, u[1], u[2])
    /\ Save(settings_file, settings_file', settings')
    /\ sops' = sops + 1
    /\ UNCHANGED <<envVars, callVars, histVars, uiVars, cmdVars, batchVars, pureVars, store,
                   boot_kind, recentVars, profileVars>>

\* The theme setter (_toggle_theme): the assignment, then save().
theme_setter ==
    /\ store = "settings"
    /\ sops < MaxOps
    /\ \E value \in {"Light", "Dark"} :
          settings' = SettingsSet(settings, "theme", value)
    /\ Save(settings_file, settings_file', settings')
    /\ sops' = sops + 1
    /\ UNCHANGED <<envVars, callVars, histVars, uiVars, cmdVars, batchVars, pureVars, store,
                   boot_kind, recentVars, profileVars>>

\* RecentFiles.add(filepath), its save included.
recent_add ==
    /\ store = "recent"
    /\ sops < MaxOps
    /\ \E filepath \in Sources :
          /\ recent_files' = RecentAdd(recent_files, filepath, recent_max)
          /\ last_added' = filepath
    /\ Save(recent_file, recent_file', recent_files')
    /\ sops' = sops + 1
    /\ UNCHANGED <<envVars, callVars, histVars, uiVars, cmdVars, batchVars, pureVars, store,
                   boot_kind, settingsVars, recent_max, profileVars>>

\* BuildProfiles.set(name, profile), its save included.
profiles_set ==
    /\ store = "profiles"
    /\ sops < MaxOps
    /\ \E name \in SetNames, console \in BOOLEAN, admin \in BOOLEAN :
          profiles' = ProfilesSet(profiles, name, Profile(console, admin))
    /\ Save(profiles_file, profiles_file', profiles')
    /\ sops' = sops + 1
    /\ UNCHANGED <<envVars, callVars, histVars, uiVars, cmdVars, batchVars, pureVars, store,
                   boot_kind, settingsVars, recentVars>>

\* BuildProfiles.load() called again on the store.
profiles_load ==
    /\ store = "profiles"
    /\ profiles' = ProfilesLoad(profiles, load_json(profiles_file, << >>))
    /\ UNCHANGED <<envVars, callVars, histVars, uiVars, cmdVars, batchVars, pureVars,
                   save_outcome, store, sops, boot_kind, settingsVars,
                   recentVars, profiles_file>>

\* CompilationHistory.add, its save included.
store_history_add ==
    /\ store = "history"
    /\ adds < MaxOps
    /\ \E success \in BOOLEAN :
          history_add("a.py", "a.exe", "py", success, "Default", 0)
    /\ sops' = sops + 1
    /\ UNCHANGED <<envVars, callVars, uiVars, cmdVars, batchVars, pureVars, store, boot_kind,
                   settingsVars, recentVars, profileVars>>

\* The application is started again: UniversalCompiler.__init__ constructs
\* the stores from their backing files.
reopen ==
    /\ store \in StoreNames
    /\ settings' = SettingsNew(settings_file)
    /\ recent_files' = RecentNew(recent_file, srcFiles, recent_max)
    /\ profiles' = ProfilesNew(profiles_file)
    /\ history' = HistoryNew(history_file)
    /\ sops' = 0
    /\ boot_kind' = ActiveFile.kind
    /\ save_outcome' = "none"
    /\ UNCHANGED <<envVars, callVars, uiVars, cmdVars, batchVars, pureVars, store, settings_file,
                   recent_file, recent_max, last_added, profiles_file,
                   history_file, max_items, clock, adds>>

\* The stores of a behaviour that does not work on them.
IdleStores ==
    /\ save_outcome = "none"
    /\ store = "none"
    /\ sops = 0
    /\ boot_kind = "missing"
    /\ settings_file = MissingFile
    /\ settings = SettingsNew(settings_file)
    /\ recent_file = MissingFile
    /\ recent_max = 1
    /\ recent_files = << >>
    /\ last_added = ""
    /\ profiles_file = MissingFile
    /\ profiles = ProfilesNew(profiles_file)

(***************************************************************************)
(* The command lines of the strategies.  A text is a sequence              *)
(* of tokens; a path has its separators "/" and its dots "." as tokens of  *)
(* their own.  An argument vector is a sequence of texts.                  *)
(***************************************************************************)
\* The greatest index of s that holds x, or 0.
LastIndex(s, x) ==
    LET at == {i \in 1..Len(s) : s[i] = x}
    IN  IF at = {} THEN 0 ELSE CHOOSE i \in at : \A j \in at : j <= i

\* os.path.dirname(path), of a path that is not a root
dirname(path) == SubSeq(path, 1, LastIndex(path, "/") - 1)

\* os.path.basename(path)
basename(path) == SubSeq(path, LastIndex(path, "/") + 1, Len(path))

\* A plausible slip: the file name is taken with its extension.
splitext_whole(name) == name

\* os.path.splitext(name)[0]: the name up to its last dot, when a token
\* that is not a dot stands before that dot.
splitext_stem(name) ==
    LET d == LastIndex(name, ".")
    IN  IF d > 0 /\ \E j \in 1..(d - 1) : name[j] # "."
        THEN SubSeq(name, 1, d - 1)
        ELSE name

\* f'"{text}"'
Quoted(text) == <<"\"">> \o text \o <<"\"">>

\* metadata.get(key)
Get(metadata, key) ==
    IF key \in DOMAIN metadata THEN metadata[key] ELSE ""

\* icon and os.path.exists(icon)
IconUsable(icon, existing) == icon # "" /\ icon \in existing

\* The flag and the quoted value of one metadata field, when it is set.
MetaFlag(metadata, key, flag) ==
    IF Get(metadata, key) # ""
    THEN <<flag>> \o Quoted(<<Get(metadata, key)>>)
    ELSE << >>

\* A plausible slip: the icon is passed on without looking for its file.
compile_ps1_any_icon(source, output, icon, admin, no_console, metadata, existing) ==
    <<<<"powershell">>, <<"-ExecutionPolicy">>, <<"Bypass">>, <<"-Command">>,
      <<"Invoke-PS2EXE", "-InputFile">> \o Quoted(<<source>>)
        \o <<"-OutputFile">> \o Quoted(output)
        \o (IF icon # "" THEN <<"-IconFile">> \o Quoted(<<icon>>)
                         ELSE << >>)
        \o (IF admin THEN <<"-RequireAdmin">> ELSE << >>)
        \o (IF no_console THEN <<"-NoConsole">> ELSE << >>)
        \o MetaFlag(metadata, "product", "-Title")
        \o MetaFlag(metadata, "version", "-Version")
        \o MetaFlag(metadata, "company", "-Company")
        \o MetaFlag(metadata, "copyright", "-Copyright")>>

\* Compiler.compile_ps1: the cmd it hands to run_command.
compile_ps1_cmd(source, output, icon, admin, no_console, metadata, existing) ==
    LET ps_cmd ==
          <<"Invoke-PS2EXE", "-InputFile">> \o Quoted(<<source>>)
            \o <<"-OutputFile">> \o Quoted(output)
            \o (IF IconUsable(icon, existing)
                THEN <<"-IconFile">> \o Quoted(<<icon>>) ELSE << >>)
            \o (IF admin THEN <<"-RequireAdmin">> ELSE << >>)
            \o (IF no_console THEN <<"-NoConsole">> ELSE << >>)
            \o MetaFlag(metadata, "product", "-Title")
            \o MetaFlag(metadata, "version", "-Version")
            \o MetaFlag(metadata, "company", "-Company")
            \o MetaFlag(metadata, "copyright", "-Copyright")
    IN  <<<<"powershell">>, <<"-ExecutionPolicy">>, <<"Bypass">>,
          <<"-Command">>, ps_cmd>>

\* Compiler.compile_py: the cmd it hands to run_command.
compile_py_cmd(source, output, icon, one_file, console, existing) ==
    LET output_dir == dirname(output)
        output_name == splitext_stem(basename(output))
    IN  <<<<"pyinstaller">>, <<"--distpath">>, output_dir, <<"--name">>,
          output_name, <<"--noconfirm">>>>
          \o (IF one_file THEN <<<<"--onefile">>>> ELSE << >>)
          \o (IF ~console THEN <<<<"--noconsole">>>> ELSE << >>)
          \o (IF IconUsable(icon, existing)
              THEN <<<<"--icon">>, <<icon>>>> ELSE << >>)
          \o <<<<source>>>>

\* Compiler.compile: the lambdas of "ps1" and "py".
CommandOf(o, existing) ==
    IF o.file_type = "ps1"
    THEN compile_ps1_cmd(o.source, o.output, o.icon, o.admin, ~o.console,
                         o.metadata, existing)
    ELSE compile_py_cmd(o.source, o.output, o.icon, o.single_file,
                        o.console, existing)

\* The path of the directory mkdtemp made under the name d.
TempPath(d) == <<"tmp", ToString(d)>>

\* compile_batch: sed_content, for the workspace tdir.
compile_batch_sed(source, output, tdir) ==
    LET src_name == basename(source)
    IN  <<"[Version] Class=IEXPRESS SEDVersion=3 [Options] ... RebootMode=N",
          "TargetName=">> \o output
          \o <<"FriendlyName=App", "AppLaunched=cmd /c ">> \o Quoted(src_name)
          \o <<"PostInstallCmd=<None> SourceFiles=SourceFiles [Strings]",
               "[SourceFiles]", "SourceFiles0=">> \o tdir \o <<"\\">>
          \o <<"[SourceFiles0]", "%FILE0%=">> \o src_name

\* compile_batch: [iexpress, "/N", "/Q", sed_file]
compile_batch_cmd(tdir) ==
    <<<<"iexpress">>, <<"/N">>, <<"/Q">>, tdir \o <<"/", "config.sed">>>>

\* compile_js: the cmd it hands to run_command
compile_js_cmd(source, output) ==
    <<<<"pkg">>, source, <<"--target">>, <<"node18-win-x64">>,
      <<"--output">>, output>>

\* compile_cs: [csc, f"/out:{output}", source], << >> when no csc was found
compile_cs_cmd(source, output, h) ==
    IF compile_cs_tool(h) = "" THEN << >>
    ELSE <<<<compile_cs_tool(h)>>, <<"/out:">> \o output, source>>

\* compile_go: [go_exe, "build", "-o", output, source], << >> when no go
\* was found; its cwd is os.path.dirname(source)
compile_go_cmd(source, output, h) ==
    IF compile_go_tool(h) = "" THEN << >>
    ELSE <<<<compile_go_tool(h)>>, <<"build">>, <<"-o">>, output, source>>

\* compile_ahk: [ahk, "/in", source, "/out", output] and the icon if its
\* file exists, << >> when no Ahk2Exe was found
compile_ahk_cmd(source, output, icon, existing, h) ==
    IF compile_ahk_tool(h) = "" THEN << >>
    ELSE <<<<compile_ahk_tool(h)>>, <<"/in">>, source, <<"/out">>, output>>
           \o (IF IconUsable(icon, existing)
               THEN <<<<"/icon">>, <<icon>>>> ELSE << >>)

\* compile_rb: the cmd it hands to run_command
compile_rb_cmd(source, output) ==
    <<<<"ocra">>, source, <<"--output">>, output>>

\* What a call hands to the outside: the argument vector, the cwd and the
\* directive file.
Handed(c, d, sed) == [cmd |-> c, cwd |-> d, sed_content |-> sed]

\* A plausible slip: the lambdas of "js" and of the IExpress types pass the
\* icon and the console option on.
InvocationWithOptions(o, existing, h, ds) ==
    LET s == Strategy(o.file_type)
    IN  CASE s \in {"compile_ps1", "compile_py"} ->
                Handed(CommandOf(o, existing), << >>, << >>)
          [] s = "compile_batch" ->
                IF FreshName(ds) = {} THEN Handed(<< >>, << >>, << >>)
                ELSE LET tdir == TempPath(CHOOSE d \in FreshName(ds) : TRUE)
                     IN  Handed(compile_batch_cmd(tdir), << >>,
                                compile_batch_sed(o.source, o.output, tdir)
                                  \o (IF o.console THEN <<"ShowWindow=1">>
                                                   ELSE << >>))
          [] s = "compile_js" ->
                Handed(compile_js_cmd(o.source, o.output)
                         \o (IF IconUsable(o.icon, existing)
                             THEN <<<<"--icon">>, <<o.icon>>>> ELSE << >>),
                       << >>, << >>)
          [] s = "compile_cs" ->
                Handed(compile_cs_cmd(o.source, o.output, h), << >>, << >>)
          [] s = "compile_go" ->
                Handed(compile_go_cmd(o.source, o.output, h),
                       IF compile_go_tool(h) = "" THEN << >>
                       ELSE dirname(o.source), << >>)
          [] s = "compile_ahk" ->
                Handed(compile_ahk_cmd(o.source, o.output, o.icon, existing,
                                       h), << >>, << >>)
          [] s = "compile_rb" ->
                Handed(compile_rb_cmd(o.source, o.output), << >>, << >>)

\* Compiler.compile: the lambdas of the dispatch table, each with the
\* arguments it passes on; ds are the temporary directories in use.
Invocation(o, existing, h, ds) ==
    LET s == Strategy(o.file_type)
    IN  CASE s \in {"compile_ps1", "compile_py"} ->
                Handed(CommandOf(o, existing), << >>, << >>)
          [] s = "compile_batch" ->
                IF FreshName(ds) = {} THEN Handed(<< >>, << >>, << >>)
                ELSE LET tdir == TempPath(CHOOSE d \in FreshName(ds) : TRUE)
                     IN  Handed(compile_batch_cmd(tdir), << >>,
                                compile_batch_sed(o.source, o.output, tdir))
          [] s = "compile_js" ->
                Handed(compile_js_cmd(o.source, o.output), << >>, << >>)
          [] s = "compile_cs" ->
                Handed(compile_cs_cmd(o.source, o.output, h), << >>, << >>)
          [] s = "compile_go" ->
                Handed(compile_go_cmd(o.source, o.output, h),
                       IF compile_go_tool(h) = "" THEN << >>
                       ELSE dirname(o.source), << >>)
          [] s = "compile_ahk" ->
                Handed(compile_ahk_cmd(o.source, o.output, o.icon, existing,
                                       h), << >>, << >>)
          [] s = "compile_rb" ->
                Handed(compile_rb_cmd(o.source, o.output), << >>, << >>)

\* The hosts a command line is built on.
CommandHosts ==
    {{}, {"csc32", "go_local", "ahk_pf_v2"}, Locations}

\* No command line is being built.
NoOpts == [file_type |-> ""]

\* The arguments a call is made with.
OutputPaths ==
    {<<"out", "/", "app", ".", "exe">>,
     <<"app", ".", "exe">>,
     <<"out", "/", "my", ".", "app", ".", "exe">>,
     <<"out", "/", "dist", "/", "app">>,
     <<"out", "/", ".", "hidden">>}
Icons == {"", "app.ico", "gone.ico"}
Metadatas ==
    {<< >>}
      \cup [product : {"", "Tool"}, version : {"", "1.0.0.0"},
            company : {"", "ACME"}, copyright : {"", "(c) ACME"}]
CallOptions ==
    {[file_type |-> ft, source |-> IF ft = "ps1" THEN "s.ps1" ELSE "a.py",
      output |-> out, icon |-> icon, admin |-> admin, console |-> console,
      single_file |-> single_file, metadata |-> metadata] :
        ft \in {"ps1", "py"}, out \in OutputPaths, icon \in Icons,
        admin \in BOOLEAN, console \in BOOLEAN, single_file \in BOOLEAN,
        metadata \in Metadatas}

\* The arguments of a call for the other types; their source is a path.
SourcePath(ft) == <<"src", "/", "main", ".", ft>>
FewMetadatas ==
    {<< >>,
     [product |-> "Tool", version |-> "1.0.0.0", company |-> "ACME",
      copyright |-> "(c) ACME"]}
OtherCallOptions ==
    {[file_type |-> ft, source |-> SourcePath(ft), output |-> out,
      icon |-> icon, admin |-> admin, console |-> console,
      single_file |-> single_file, metadata |-> metadata] :
        ft \in SupportedTypes \ {"ps1", "py"}, out \in OutputPaths,
        icon \in Icons, admin \in BOOLEAN, console \in BOOLEAN,
        single_file \in BOOLEAN, metadata \in FewMetadatas}

\* Compiler.compile(source, output, file_type, icon, admin, console,
\* single_file, metadata), up to the run_command call of the strategy.
build_command ==
    /\ opts.file_type = ""
    /\ \E o \in CallOptions \cup OtherCallOptions :
          /\ opts' = o
          /\ cmd' = Invocation(o, srcFiles, host, dirs).cmd
          /\ cwd' = Invocation(o, srcFiles, host, dirs).cwd
          /\ sed_content' = Invocation(o, srcFiles, host, dirs).sed_content
    /\ UNCHANGED <<envVars, callVars, histVars, uiVars, storeVars, pureVars,
                   batchVars>>

\* run_command(cmd) has returned and the call is over.
command_over ==
    /\ opts.file_type # ""
    /\ opts' = NoOpts
    /\ cmd' = << >>
    /\ cwd' = << >>
    /\ sed_content' = << >>
    /\ UNCHANGED <<envVars, callVars, histVars, uiVars, storeVars, pureVars,
                   batchVars>>

IdleCommand ==
    /\ opts = NoOpts
    /\ cmd = << >>
    /\ cwd = << >>
    /\ sed_content = << >>

(***************************************************************************)
(* The calls of the functions that only read the host.                     *)
(***************************************************************************)
NoEstimate == [file_type |-> "", exists |-> FALSE, source_size |-> 0]

IdlePure ==
    /\ denied = {}
    /\ probe_type = ""
    /\ probe_out = "none"
    /\ probe_again = "none"
    /\ status_out = NoStatus
    /\ est_in = NoEstimate
    /\ est_out = Unknown

NoPureCall ==
    /\ probe_out = "none"
    /\ status_out = NoStatus
    /\ est_in = NoEstimate

\* DependencyChecker.check_compiler(file_type)
check_compiler_call ==
    /\ NoPureCall
    /\ \E ft \in SupportedTypes \cup OtherTypes :
          /\ probe_type' = ft
          /\ probe_out' = check_compiler_outcome(ft, host, denied)
    /\ UNCHANGED <<envVars, callVars, histVars, uiVars, storeVars, cmdVars, batchVars,
                   denied, probe_again, status_out, est_in, est_out>>

\* The same call once more, on the host as the first call left it.
check_compiler_again ==
    /\ probe_out # "none"
    /\ probe_again = "none"
    /\ probe_again' = check_compiler_outcome(probe_type, host, denied)
    /\ UNCHANGED <<envVars, callVars, histVars, uiVars, storeVars, cmdVars, batchVars,
                   denied, probe_type, probe_out, status_out, est_in,
                   est_out>>

\* DependencyChecker.get_all_status()
get_all_status_call ==
    /\ NoPureCall
    /\ status_out' = get_all_status(host, denied)
    /\ status_out' # NoStatus
    /\ UNCHANGED <<envVars, callVars, histVars, uiVars, storeVars, cmdVars, batchVars,
                   denied, probe_type, probe_out, probe_again, est_in,
                   est_out>>

\* The source sizes of the model: a few bytes, and a few MiB.
SourceSizes == (0..MaxSrcSize) \cup {n * MiB : n \in 1..MaxSrcSize}

\* estimate_output_size(source_file, file_type)
estimate_call ==
    /\ NoPureCall
    /\ \E ft \in SupportedTypes \cup OtherTypes, exists \in BOOLEAN,
          n \in SourceSizes :
          /\ est_in' = [file_type |-> ft, exists |-> exists,
                        source_size |-> IF exists THEN n ELSE 0]
          /\ est_out' = estimate_output_size(exists, n, ft)
    /\ UNCHANGED <<envVars, callVars, histVars, uiVars, storeVars, cmdVars, batchVars,
                   denied, probe_type, probe_out, probe_again, status_out>>

\* The caller has the answer.
pure_over ==
    /\ ~NoPureCall
    /\ probe_type' = ""
    /\ probe_out' = "none"
    /\ probe_again' = "none"
    /\ status_out' = NoStatus
    /\ est_in' = NoEstimate
    /\ est_out' = Unknown
    /\ UNCHANGED <<envVars, callVars, histVars, uiVars, storeVars, cmdVars, batchVars,
                   denied>>

(***************************************************************************)
(* Initial states of the parts.                                            *)
(***************************************************************************)
InitCall ==
    /\ cpc = "idle"
    /\ req = NoReq
    /\ temp_dir = {}
    /\ wsFiles = {}
    /\ exc = FALSE
    /\ result = NoResult
    /\ proc = NoProc
    /\ spawns = 0
    /\ rmtree_outcome = "none"
    /\ dirs_before = {}

InitUi ==
    /\ source_file = ""
    /\ file_type = ""
    /\ output_entry = ""
    /\ compile_btn = FALSE
    /\ compiling = FALSE
    /\ wpc = "none"
    /\ w_output = ""
    /\ w_success = FALSE
    /\ builds = 0

(***************************************************************************)
(* SpecCompile: Compiler.compile called directly, statement by statement,  *)
(* for any file type on any host.                                          *)
(***************************************************************************)
InitCompile ==
    /\ host = {}
    /\ srcFiles \in {{"b.bat"}, {}}
    /\ fsOut = [o \in Outputs |-> {}]
    /\ dirs = {}
    /\ InitCall /\ InitUi /\ IdleStores /\ IdleCommand /\ IdlePure /\ IdleBatch
    /\ max_items = 1
    /\ history_file = MissingFile
    /\ history = <<>>
    /\ clock = 0
    /\ adds = 0

\* A caller sets up the host's tools and calls compile(source, output, type).
call_compile ==
    /\ cpc = "idle"
    /\ \E ft \in SupportedTypes \cup OtherTypes :
         \E h \in SUBSET LocationsOf(ft) :
           /\ host' = h
           /\ SetCallState(Enter("b.bat", "b.exe", ft, dirs, fsOut))
    /\ UNCHANGED <<srcFiles, histVars, uiVars, storeVars, cmdVars, batchVars, pureVars>>

\* The next statement of the call.
compile_step ==
    /\ \E n \in Steps(CallState, host, srcFiles) : SetCallState(n)
    /\ UNCHANGED <<host, srcFiles, histVars, uiVars, storeVars, cmdVars, batchVars, pureVars>>

\* The caller has the pair, or the exception; the frame is gone.
call_over ==
    /\ cpc \in {"returned", "raised"}
    /\ SetCallState([Enter("", "", "", {}, fsOut) EXCEPT
                        !.pc = "idle", !.dirs = dirs])
    /\ UNCHANGED <<host, srcFiles, histVars, uiVars, storeVars, cmdVars, batchVars, pureVars>>

NextCompile == call_compile \/ compile_step \/ call_over

SpecCompile == InitCompile /\ [][NextCompile]_vars

(***************************************************************************)
(* SpecHistory: CompilationHistory.add called with any arguments.          *)
(***************************************************************************)
InitHistOnly ==
    /\ host = {}
    /\ srcFiles = {}
    /\ fsOut = [o \in Outputs |-> {}]
    /\ dirs = {}
    /\ InitCall /\ InitUi /\ InitHistory /\ IdleStores /\ IdleCommand /\ IdlePure /\ IdleBatch

add_any ==
    /\ adds < MaxCap + 5
    /\ \E success \in BOOLEAN, size \in {0, MaxSize} :
          history_add("a.py", "a.exe", "py", success, "Default", size)
    /\ UNCHANGED <<envVars, callVars, uiVars, otherStoreVars, cmdVars, batchVars, pureVars>>

NextHistory == add_any

SpecHistory == InitHistOnly /\ [][NextHistory]_vars

(***************************************************************************)
(* SpecStores: one of the four stores, constructed from any backing file,  *)
(* then called and constructed again in any order.                         *)
(***************************************************************************)
InitStores ==
    /\ host = {}
    /\ fsOut = [o \in Outputs |-> {}]
    /\ dirs = {}
    /\ InitCall /\ InitUi /\ IdleCommand /\ IdlePure /\ IdleBatch
    /\ store \in StoreNames
    /\ save_outcome = "none"
    /\ sops = 0
    /\ settings_file \in
          IF store = "settings" THEN SettingsFiles ELSE {MissingFile}
    /\ settings = SettingsNew(settings_file)
    /\ srcFiles \in
          IF store = "recent" THEN {Sources, Sources \ {"c.txt"}}
                              ELSE {Sources}
    /\ recent_max \in IF store = "recent" THEN 1..MaxRecent ELSE {1}
    /\ recent_file \in
          IF store = "recent"
          THEN {MissingFile, CorruptFile}
                   \cup {JsonFile(s) : s \in SeqsUpTo(Sources, MaxStored)}
          ELSE {MissingFile}
    /\ recent_files = RecentNew(recent_file, srcFiles, recent_max)
    /\ last_added = ""
    /\ profiles_file \in
          IF store = "profiles" THEN ProfilesFiles ELSE {MissingFile}
    /\ profiles = ProfilesNew(profiles_file)
    /\ IF store = "history"
       THEN InitHistory
       ELSE /\ max_items = 1
            /\ history_file = MissingFile
            /\ history = HistoryNew(history_file)
            /\ clock = 0
            /\ adds = 0
    /\ boot_kind = ActiveFile.kind

NextStores ==
    \/ settings_set
    \/ theme_setter
    \/ recent_add
    \/ profiles_set
    \/ profiles_load
    \/ store_history_add
    \/ reopen

SpecStores == InitStores /\ [][NextStores]_vars

(***************************************************************************)
(* SpecCommand: the command line of a build, for any type and options.     *)
(***************************************************************************)
InitCommand ==
    /\ host \in CommandHosts
    /\ srcFiles \in {Sources, Sources \cup {"app.ico"}}
    /\ fsOut = [o \in Outputs |-> {}]
    /\ dirs \in {{}, {1}}
    /\ InitCall /\ InitUi /\ IdleStores /\ IdleCommand /\ IdlePure /\ IdleBatch
    /\ max_items = 1
    /\ history_file = MissingFile
    /\ history = << >>
    /\ clock = 0
    /\ adds = 0

NextCommand == build_command \/ command_over

SpecCommand == InitCommand /\ [][NextCommand]_vars

(***************************************************************************)
(* SpecProbe: the functions that only read the host, called on any host.   *)
(***************************************************************************)
ProbeHosts ==
    {{}, Locations, {"powershell"}, {"ahk_pf"},
     {"go_local", "ahk_pf86", "csc32"}}
DeniedPaths ==
    {{}, {"iexpress"}, {"ahk_pf_v2", "go_local"}, {"csc64"}}

InitProbe ==
    /\ host \in ProbeHosts
    /\ srcFiles = Sources
    /\ fsOut = [o \in Outputs |-> {}]
    /\ dirs = {}
    /\ InitCall /\ InitUi /\ IdleStores /\ IdleCommand /\ IdleBatch
    /\ max_items = 1
    /\ history_file = MissingFile
    /\ history = << >>
    /\ clock = 0
    /\ adds = 0
    /\ denied \in {dn \in DeniedPaths : dn \cap host = {}}
    /\ probe_type = ""
    /\ probe_out = "none"
    /\ probe_again = "none"
    /\ status_out = NoStatus
    /\ est_in = NoEstimate
    /\ est_out = Unknown

NextProbe ==
    \/ check_compiler_call
    \/ check_compiler_again
    \/ get_all_status_call
    \/ estimate_call
    \/ pure_over

SpecProbe == InitProbe /\ [][NextProbe]_vars

(***************************************************************************)
(* Spec: the application, its UI thread and its build worker.              *)
(***************************************************************************)
Init ==
    /\ host \in SUBSET {"pyinstaller", "iexpress"}
    /\ srcFiles = Sources
    /\ fsOut = [o \in Outputs |-> {}]
    /\ dirs = {}
    /\ InitCall /\ InitUi /\ IdleStores /\ IdleCommand /\ IdlePure /\ IdleBatch
    /\ max_items \in {1, MaxCap}
    /\ history_file = MissingFile
    /\ history = load_json(history_file, <<>>)
    /\ clock = 0
    /\ adds = 0

Next ==
    \/ load_file
    \/ compile_clicked
    \/ worker_call
    \/ worker_record
    \/ worker_postbuild
    \/ worker_finish

Spec == Init /\ [][Next]_vars

(***************************************************************************)
(* SpecBatch: a batch session.  Files are put into the queue by the dialog *)
(* and by drops, Compile All is pressed, and the build worker runs next to *)
(* the UI thread; no file is loaded, built or removed from the queue by    *)
(* hand.                                                                   *)
(***************************************************************************)
InitBatch ==
    /\ host = {"pyinstaller", "iexpress"}
    /\ srcFiles = Sources
    /\ fsOut = [o \in Outputs |-> {}]
    /\ dirs = {}
    /\ InitCall /\ InitUi /\ IdleStores /\ IdleCommand /\ IdlePure /\ IdleBatch
    /\ max_items = 1
    /\ history_file = MissingFile
    /\ history = load_json(history_file, <<>>)
    /\ clock = 0
    /\ adds = 0

NextBatch ==
    \/ worker_call
    \/ worker_record
    \/ worker_postbuild
    \/ worker_finish
    \/ add_to_queue
    \/ on_drop
    \/ compile_all_clicked
    \/ compile_all_resume

SpecBatch == InitBatch /\ [][NextBatch]_vars

(***************************************************************************)
(* SpecLive: the batch session with its scheduling.  The worker is a       *)
(* thread of its own: the operating system lets it take its next step.     *)
(* The wait loop of _compile_all polls the flag on the UI thread until it  *)
(* finds it clear.  Nothing makes the user add files or press a button.    *)
(***************************************************************************)
SpecLive ==
    /\ SpecBatch
    /\ WF_vars(worker_call)
    /\ WF_vars(worker_record)
    /\ WF_vars(worker_postbuild)
    /\ WF_vars(worker_finish)
    /\ WF_vars(compile_all_resume)

(***************************************************************************)
(* Properties of Compiler.compile (SpecCompile).                           *)
(***************************************************************************)
CallOver == cpc \in {"returned", "raised"}

\* The text holds the display name or the compiler name of the type's tool.
NamesTool(text, ft) ==
    \E i \in 1..Len(text) :
        text[i] \in {COMPILERS(ft).name, COMPILERS(ft).compiler}

\* C1: for a file type that is not a key of the dispatch table, the call
\* never leaves the lookup: it attempts no process, creates no workspace,
\* raises nothing, and returns (False, "Unsupported file type: <type>").
C1_UnsupportedType ==
    (cpc # "idle" /\ req.file_type \notin SupportedTypes)
        => /\ cpc \in {"called", "returned"}
           /\ spawns = 0
           /\ temp_dir = {}
           /\ dirs = dirs_before
           /\ cpc = "returned"
                => result = [ok |-> FALSE,
                             text |-> <<"Unsupported file type: ",
                                        req.file_type>>]

C1_Witness == cpc = "returned" /\ req.file_type = "txt"

\* C2: for a supported type whose toolchain is at none of its locations,
\* the call returns (False, text), the text names the tool, and no process
\* spawn was attempted.
C2_ToolMissingNoSpawn ==
    (CallOver /\ req.file_type \in SupportedTypes
              /\ ToolchainAbsent(req.file_type, host))
        => /\ cpc = "returned"
           /\ ~result.ok
           /\ NamesTool(result.text, req.file_type)
           /\ spawns = 0

\* C3: no exception escapes Compiler.compile: every call ends by returning.
C3_NeverRaises == cpc # "raised"

\* C4, as claimed: when compile_batch is over, by a return or by an
\* exception, the workspace it created does not exist.
C4_WorkspaceGone ==
    (CallOver /\ temp_dir # {}) => temp_dir \cap dirs = {}

\* C4, amended: when compile_batch is over, by a return or by an exception,
\* the removal of the workspace it created has been attempted; the
\* workspace exists only if that removal failed (its errors are ignored),
\* and after a removal that worked the directories are those of before the
\* call.  The workspace was new: its name was not in use at the call.
C4_WorkspaceCleanup ==
    (CallOver /\ temp_dir # {})
        => /\ rmtree_outcome # "none"
           /\ rmtree_outcome = "removed" => dirs = dirs_before
           /\ temp_dir \cap dirs # {} => rmtree_outcome = "failed"
           /\ temp_dir \cap dirs_before = {}
           /\ dirs \subseteq dirs_before \cup temp_dir

\* A second run, started with a directory left behind, whose packager was
\* never reached (an earlier step raised) and whose workspace was removed.
C4_Witness ==
    /\ cpc = "raised"
    /\ temp_dir # {}
    /\ dirs_before # {}
    /\ rmtree_outcome = "removed"

\* C5: when a step of compile_batch before the packager invocation fails,
\* the call returns a failed pair, the packager is not invoked, and the
\* part of the workspace that was created is removed.
C5_EarlyFailureIsResult ==
    (CallOver /\ exc)
        => /\ cpc = "returned"
           /\ ~result.ok
           /\ spawns = 0
           /\ temp_dir \cap dirs = {}

\* C8: run_command reports success exactly when the process was started and
\* exited with status 0, whatever it printed, and the text of a process
\* that ran is its standard output followed by its standard error.
C8_RunCommand ==
    spawns > 0
        => /\ result.ok = (proc.spawned /\ proc.code = 0)
           /\ proc.spawned => result.text = proc.stdout \o proc.stderr

\* A process that printed an error text on both streams and exited with 0.
C8_Witness ==
    /\ spawns > 0
    /\ proc.spawned
    /\ proc.code = 0
    /\ proc.stdout # <<>>
    /\ proc.stderr # <<>>
    /\ result.ok

(***************************************************************************)
(* Properties of the build worker (Spec).                                  *)
(***************************************************************************)
\* C6: every worker that _compile started and that has ended, normally or
\* not, has added exactly one history entry for its build.
C6_EveryBuildRecorded == wpc \in {"none", "dead"} => adds = builds

\* C7: the entry the worker wrote has success = true and the size of the
\* output file exactly when the strategy reported success and the output
\* file exists at the requested path; otherwise success = false, size = 0.
C7_EntryOutcome ==
    wpc \in {"postbuild", "finish"}
        => LET e == history[1]
               built == w_success /\ fsOut[w_output] # {}
           IN  /\ e.output = w_output
               /\ e.success = built
               /\ built => fsOut[w_output] = {e.size}
               /\ ~built => e.size = 0

\* The strategy reported success but there is no output file.
C7_Witness ==
    /\ wpc = "finish"
    /\ w_success
    /\ fsOut[w_output] = {}
    /\ ~history[1].success

(***************************************************************************)
(* Properties of CompilationHistory.add (SpecHistory).                     *)
(***************************************************************************)
\* C9: after max_items + 5 adds the history holds exactly max_items
\* entries, the newest first, and they are the max_items last added (the 5
\* added first are gone); the history is always newest first; and every
\* add leaves min(previous length + 1, max_items) entries.
C9_HistoryCap ==
    /\ [](adds = max_items + 5
            => /\ Len(history) = max_items
               /\ \A i \in 1..max_items : history[i].timestamp = clock - i)
    /\ [](\A i, j \in 1..Len(history) :
            i < j => history[i].timestamp > history[j].timestamp)
    /\ [][adds' = adds + 1
            => Len(history') = Min(Len(history) + 1, max_items)]_vars

C9_Witness == adds = max_items + 5 /\ Len(history) = max_items /\ max_items > 1

Occurrences(s, x) == Cardinality({i \in 1..Len(s) : s[i] = x})

NoDuplicates(s) == \A i, j \in 1..Len(s) : s[i] = s[j] => i = j

C12_CappedNoDuplicates ==
    store = "recent"
      => Len(recent_files) <= recent_max /\ NoDuplicates(recent_files)

\* The stored paths whose file exists, in their stored order.
RECURSIVE StillExisting(_)
StillExisting(s) ==
    IF s = << >> THEN << >>
    ELSE (IF Head(s) \in srcFiles THEN <<Head(s)>> ELSE << >>)
             \o StillExisting(Tail(s))

\* C13: RecentFiles.load keeps, in the stored order, the stored paths
\* whose file exists, the first max_items of them, and drops the others.
C13_LoadKeepsExisting ==
    (store = "recent" /\ sops = 0 /\ boot_kind = "json")
      => LET kept == StillExisting(recent_file.data)
         IN  /\ Len(recent_files) = Min(Len(kept), recent_max)
             /\ \A i \in 1..Len(recent_files) : recent_files[i] = kept[i]

\* A list of two stored paths was loaded, one of them without its file.
C13_Witness ==
    /\ store = "recent" /\ sops = 0 /\ boot_kind = "json"
    /\ Len(recent_file.data) = 2
    /\ recent_file.data[1] \notin srcFiles
    /\ recent_files = <<recent_file.data[2]>>

\* The last mutating call of the store at work wrote its file.
Saved == store \in StoreNames /\ sops > 0 /\ save_outcome = "written"

\* C14, as claimed: for each store, after any mutating calls and a save,
\* a new store constructed from the backing file holds the saved data.
C14_RoundTrip == Saved => ActiveNew = ActiveMemory

\* C14, amended: the round trip holds for BuildProfiles and
\* CompilationHistory, for Settings while every key that was set is a key
\* of the schema, and for RecentFiles while the file of every listed path
\* exists.
C14_RoundTripWithinSchema ==
    (/\ Saved
     /\ store = "settings" => DOMAIN settings = DOMAIN DEFAULT_SETTINGS
     /\ store = "recent"
          => \A i \in 1..Len(recent_files) : recent_files[i] \in srcFiles)
      => ActiveNew = ActiveMemory

\* Two existing paths were added and saved.
C14_Witness ==
    /\ store = "recent" /\ Saved
    /\ Len(recent_files) = 2
    /\ \A i \in 1..Len(recent_files) : recent_files[i] \in srcFiles
    /\ boot_kind = "corrupt"

C16_FileHoldsMemory ==
    (store \in StoreNames /\ sops > 0) => ActiveFile = JsonFile(ActiveMemory)

\* C16, amended: after every mutating call whose save_json wrote the file,
\* the backing file holds exactly the whole in-memory content; a call whose
\* write failed before the file was opened leaves the file as it was.
C16_FileHoldsMemoryIfWritten ==
    /\ [](Saved => ActiveFile = JsonFile(ActiveMemory))
    /\ [][(store \in StoreNames /\ sops' = sops + 1
             /\ save_outcome' = "failed")
          => ActiveFile' = ActiveFile]_vars

\* A second profile was saved over a file that held data already.
C16_Witness ==
    /\ store = "profiles" /\ Saved /\ sops = 2 /\ boot_kind = "json"
    /\ "Custom" \in names
    /\ profiles["Default"] # DEFAULT_PROFILES["Default"]

\* C17: after Settings is loaded its keys are those of DEFAULT_SETTINGS; a
\* schema key of the file has the file's value, any other schema key its
\* default, and a key of the file outside the schema is ignored.
C17_SchemaKeys ==
    (store = "settings" /\ sops = 0)
      => LET saved == IF settings_file.kind = "json"
                      THEN settings_file.data ELSE << >>
         IN  /\ DOMAIN settings = DOMAIN DEFAULT_SETTINGS
             /\ \A k \in DOMAIN DEFAULT_SETTINGS :
                   settings[k] = IF k \in DOMAIN saved
                                 THEN saved[k] ELSE DEFAULT_SETTINGS[k]

\* A file with a schema key, without another, and with a foreign key.
C17_Witness ==
    /\ store = "settings" /\ sops = 0 /\ boot_kind = "json"
    /\ DOMAIN settings_file.data = {"theme", "window"}
    /\ settings.theme = "Light"
    /\ settings.default_profile = "Default"

\* C18: names() always has the four built-in names; a set adds its name
\* or replaces the profile of that name and leaves the others; no set and
\* no load takes a name away.
C18_BuiltinsStay ==
    /\ [](store = "profiles" => BuiltinNames \subseteq names)
    /\ [][(store = "profiles" /\ sops' >= sops)
          => DOMAIN profiles \subseteq DOMAIN profiles']_vars
    /\ [][(store = "profiles" /\ sops' = sops + 1)
          => \E n \in DOMAIN profiles' :
                /\ DOMAIN profiles' = DOMAIN profiles \cup {n}
                /\ \A m \in DOMAIN profiles \ {n} :
                      profiles'[m] = profiles[m]]_vars

\* A built-in profile replaced and a new one added, over a file that held
\* a user profile only.
C18_Witness ==
    /\ store = "profiles" /\ sops = 2 /\ boot_kind = "json"
    /\ names = BuiltinNames \cup {"Custom"}
    /\ profiles["Default"] = Profile(TRUE, FALSE)
    /\ profiles["Custom"] = Profile(FALSE, TRUE)

(***************************************************************************)
(* Properties of the command lines (SpecCommand).                          *)
(***************************************************************************)
\* The text or vector s holds x; s holds x followed by y.
Has(s, x) == \E i \in 1..Len(s) : s[i] = x
HasPair(s, x, y) == \E i \in 1..(Len(s) - 1) : s[i] = x /\ s[i + 1] = y

\* C19: the PS2EXE command of a ps1 build has -IconFile exactly when an
\* icon is given and its file exists, -RequireAdmin exactly when admin is
\* set, -NoConsole exactly when console is not set, and -Title, -Version,
\* -Company, -Copyright exactly when the metadata has a non-empty product,
\* version, company, copyright.
C19_Ps1Flags ==
    opts.file_type = "ps1"
      => LET ps_cmd == cmd[Len(cmd)]
             field(key) == IF key \in DOMAIN opts.metadata
                           THEN opts.metadata[key] ELSE ""
         IN  /\ Has(ps_cmd, "-IconFile")
                   <=> (opts.icon # "" /\ opts.icon \in srcFiles)
             /\ Has(ps_cmd, "-RequireAdmin") <=> opts.admin
             /\ Has(ps_cmd, "-NoConsole") <=> ~opts.console
             /\ Has(ps_cmd, "-Title") <=> field("product") # ""
             /\ Has(ps_cmd, "-Version") <=> field("version") # ""
             /\ Has(ps_cmd, "-Company") <=> field("company") # ""
             /\ Has(ps_cmd, "-Copyright") <=> field("copyright") # ""

\* A ps1 build with an icon whose file is gone, as admin, with a console
\* and a product name only.
C19_Witness ==
    /\ opts.file_type = "ps1"
    /\ opts.icon = "gone.ico" /\ opts.admin /\ opts.console
    /\ opts.metadata # << >>
    /\ opts.metadata.product = "Tool" /\ opts.metadata.version = ""
    /\ Has(cmd[Len(cmd)], "-Title") /\ ~Has(cmd[Len(cmd)], "-IconFile")

\* C20: the PyInstaller vector of a py build has --onefile exactly when
\* single_file is set, --noconsole exactly when console is not set and
\* --icon <icon> exactly when an icon is given and its file exists; the
\* directory after --distpath and the name after --name are the directory
\* part of the output path and its file name without the extension.
C20_PyArguments ==
    opts.file_type = "py"
      => /\ Has(cmd, <<"--onefile">>) <=> opts.single_file
         /\ Has(cmd, <<"--noconsole">>) <=> ~opts.console
         /\ Has(cmd, <<"--icon">>)
               <=> (opts.icon # "" /\ opts.icon \in srcFiles)
         /\ Has(cmd, <<"--icon">>)
               => HasPair(cmd, <<"--icon">>, <<opts.icon>>)
         /\ \E i, j \in 1..(Len(cmd) - 1) :
               LET dir == cmd[i + 1]
                   name == cmd[j + 1]
                   file == IF dir = << >> THEN opts.output
                           ELSE SubSeq(opts.output, Len(dir) + 2,
                                       Len(opts.output))
                   ext == SubSeq(file, Len(name) + 1, Len(file))
               IN  /\ cmd[i] = <<"--distpath">> /\ cmd[j] = <<"--name">>
                   /\ ~Has(name, "/")
                   /\ opts.output
                        = (IF dir = << >> THEN << >> ELSE dir \o <<"/">>)
                             \o name \o ext
                   /\ \/ ext = << >>
                            /\ \A k \in 1..Len(file) :
                                  file[k] = "."
                                    => \A l \in 1..k : file[l] = "."
                      \/ Len(ext) = 2 /\ ext[1] = "." /\ ext[2] # "."
                            /\ \E k \in 1..Len(name) : name[k] # "."

\* A py build to out/my.app.exe, one file, windowed, with an icon.
C20_Witness ==
    /\ opts.file_type = "py"
    /\ opts.output = <<"out", "/", "my", ".", "app", ".", "exe">>
    /\ opts.single_file /\ ~opts.console
    /\ opts.icon = "app.ico" /\ "app.ico" \in srcFiles
    /\ HasPair(cmd, <<"--name">>, <<"my", ".", "app">>)
    /\ HasPair(cmd, <<"--distpath">>, <<"out">>)

(***************************************************************************)
(* C26 (SpecCompile): the steps of compile_batch.                          *)
(***************************************************************************)
\* The call in progress goes through compile_batch.
InBatch == Strategy(req.file_type) = "compile_batch"

\* The workspace of the call exists on the host.
WorkspaceExists == temp_dir # {} /\ temp_dir \subseteq dirs

\* The order of the steps, as a property of every state of a call.
C26_Order ==
    InBatch =>
        \* staging, writing and invoking happen in an existing workspace
        \* that no cleanup has touched
        /\ cpc \in {"copy", "sed", "run"} =>
              WorkspaceExists /\ rmtree_outcome = "none"
        \* staged before the directive is written
        /\ cpc = "sed" => wsFiles = {"source"}
        \* the packager is about to be invoked: both files are there
        /\ cpc = "run" => wsFiles = {"source", "config.sed"} /\ spawns = 0
        \* the packager was invoked: at most once, and not after a failure
        /\ spawns > 0 => spawns = 1 /\ ~exc /\ proc # NoProc
        \* the cleanup was done: the packager had returned, or a step failed
        /\ rmtree_outcome # "none" =>
              /\ cpc \in {"returned", "raised"}
              /\ spawns = 1 \/ exc

\* C26: compile_batch creates the workspace, stages the source, writes the
\* directive file, invokes the packager and cleans up, in this order: the
\* packager is never invoked before the copy and the directive file are in
\* the workspace, the workspace is never removed before the packager has
\* returned, and the source file is only read.
C26_BatchStepOrder == []C26_Order /\ [][srcFiles' = srcFiles]_vars

\* A batch build whose packager ran and whose workspace was then removed.
C26_Witness ==
    /\ InBatch
    /\ cpc = "returned"
    /\ spawns = 1
    /\ proc # SpawnFailed
    /\ rmtree_outcome = "removed"
    /\ dirs = dirs_before

(***************************************************************************)
(* C30 (SpecCompile): the probe and the tool search of the strategy.       *)
(***************************************************************************)
\* The call ended with the "<Tool> compiler not found" result.
EndedToolNotFound ==
    /\ cpc = "returned"
    /\ req.file_type \in {"ahk", "cs", "go"}
    /\ result = [ok |-> FALSE, text |-> NotFoundText(req.file_type)]

\* C30: whenever DependencyChecker.check_compiler(type) is true on a host,
\* Compiler.compile for that type on the same host does not end with the
\* tool-not-found result (types ahk, cs, go).
C30_ProbeAgreesWithDispatch ==
    check_compiler(req.file_type, host) => ~EndedToolNotFound

(***************************************************************************)
(* C21 (SpecCommand): the options the other strategies do not get.         *)
(***************************************************************************)
\* The requests that differ from o at most in icon, admin, console,
\* single_file and metadata.
SameButOptions(o) ==
    {o2 \in OtherCallOptions :
        /\ o2.file_type = o.file_type
        /\ o2.source = o.source
        /\ o2.output = o.output}

\* C21: for js, cs, go, rb, bat, cmd and vbs the external invocation depends
\* only on the source and the output path: on the same host, every request
\* that differs only in icon, admin, console, single_file or metadata gets
\* the same command, the same cwd and the same directive file.
C21_OptionsIgnored ==
    opts.file_type \in {"js", "cs", "go", "rb", "bat", "cmd", "vbs"} =>
        \A o2 \in SameButOptions(opts) :
            Invocation(o2, srcFiles, host, dirs)
                = Handed(cmd, cwd, sed_content)

\* A batch build asked for with an existing icon, admin rights, a console
\* and metadata: its command and its directive file were built.
C21_Witness ==
    /\ opts.file_type = "bat"
    /\ opts.icon = "app.ico" /\ "app.ico" \in srcFiles
    /\ opts.admin /\ opts.console /\ opts.metadata # << >>
    /\ cmd = compile_batch_cmd(TempPath(2))
    /\ sed_content # << >>

(***************************************************************************)
(* C22, C23 (SpecProbe): the probes and the size estimate.                 *)
(***************************************************************************)
\* C22: check_compiler returns a strict boolean and never raises, for any
\* file_type on any host: a failure inside a probe gives False, a type
\* outside the supported set gives False, the same call made again gives
\* the same answer, and get_all_status does not raise either.
C22_ProbeNeverRaises ==
    /\ probe_out \in {"none", "True", "False"}
    /\ (probe_out # "none" /\ probe_type \notin SupportedTypes)
          => probe_out = "False"
    /\ probe_again # "none" => probe_again = probe_out
    /\ ~status_out.raised

\* An estimate was asked for.
Estimated == est_in.file_type # ""

\* C23: estimate_output_size returns "Unknown" when the source file does
\* not exist and when the type has no registered estimate; otherwise it
\* returns the text of base + multiplier * source_size bytes (for py:
\* 15 MiB + 2 * source_size), a byte count that no smaller source size
\* exceeds.
C23_Estimate ==
    Estimated =>
        IF ~est_in.exists \/ est_in.file_type \notin SupportedTypes
        THEN est_out = Unknown
        ELSE /\ est_out = format_size(ProjectedBytes(est_in.file_type,
                                                     est_in.source_size))
             /\ est_out # Unknown
             /\ est_in.file_type = "py" =>
                   est_out = format_size(15 * MiB + 2 * est_in.source_size)
             /\ \A n \in SourceSizes :
                   n <= est_in.source_size =>
                       /\ ProjectedBytes(est_in.file_type, n)
                             <= ProjectedBytes(est_in.file_type,
                                               est_in.source_size)
                       /\ estimate_output_size(TRUE, n, est_in.file_type)
                             = format_size(ProjectedBytes(est_in.file_type,
                                                          n))

\* An estimate for a Python source of 1 MiB: the text of 17 MiB.
C23_Witness ==
    /\ Estimated
    /\ est_in.exists
    /\ est_in.file_type = "py"
    /\ est_in.source_size = MiB
    /\ est_out = [number |-> 170, unit |-> "MB"]

(***************************************************************************)
(* C25, C29 (SpecBatch): _compile_all and the batch queue.                 *)
(***************************************************************************)
\* A worker is in flight.
WorkerInFlight == wpc \notin {"none", "dead"}

\* The files of the queue at the indices in s.
Range(s) == {s[i] : i \in 1..Len(s)}

\* What holds in every state of a run: the builds were started for files
\* at increasing indices of the copy, none beyond the file the loop is at,
\* and while the build of a queued file runs the loop waits at that file.
C25_InOrder ==
    /\ \A k \in 1..Len(batch_started) :
          /\ batch_started[k] \in 1..Len(ca_items)
          /\ batch_started[k] <= ca_idx
          /\ k > 1 => batch_started[k - 1] < batch_started[k]
    /\ WorkerInFlight =>
          /\ ca_pc = "wait"
          /\ batch_started # << >>
          /\ ca_idx = batch_started[Len(batch_started)]

\* What holds of every step of a run: a build is started with the flag
\* clear and no worker in flight, and the loop leaves its wait and goes to
\* the next file only when the flag is clear.
C25_OneAtATime ==
    /\ builds' # builds =>
          /\ ~compiling /\ ~WorkerInFlight
          /\ compiling' /\ wpc' = "started"
          /\ batch_started' = Append(batch_started, ca_idx')
          /\ source_file' = ca_items'[ca_idx']
    /\ ca_idx' # ca_idx => ca_idx' > ca_idx /\ ~compiling

\* C25: _compile_all processes the queue sequentially and in queue order:
\* the build of a queued file is started only after the compiling flag of
\* the previous queued build has cleared, and two queued builds never run
\* at the same time.
C25_Sequential == []C25_InOrder /\ [][C25_OneAtATime]_vars

\* The build of the second queued file has started, after the first one
\* finished.
C25_Witness ==
    /\ batch_started = <<1, 2>>
    /\ wpc = "started"
    /\ adds = 1

\* C29: no file leaves the batch queue without having been visited by
\* _compile_all: when a run returns, every file that was in the queue
\* (appended while the run waited, too) was visited by the run or is still
\* in the queue.
C29_NoFileLost ==
    [][(ca_pc # "done" /\ ca_pc' = "done") =>
          \A f \in Range(batch_queue) :
              f \in Range(ca_items') \/ f \in Range(batch_queue')]_vars

(***************************************************************************)
(* C24, C28 (Spec), C27 (SpecFair): the compiling flag and the worker.     *)
(***************************************************************************)
\* While a worker is in flight the flag is set.
C24_FlagHeld == WorkerInFlight => compiling

\* A worker is started only with the flag clear and no worker in flight,
\* and the flag is set by then; the flag is cleared only by the worker at
\* its last statements, when every build started has its history entry.
C24_Step ==
    /\ builds' # builds =>
          /\ ~compiling /\ ~WorkerInFlight
          /\ compiling' /\ wpc' = "started"
    /\ (compiling /\ ~compiling') =>
          /\ wpc = "finish" /\ wpc' = "none"
          /\ adds = builds

\* C24: at most one build worker is in flight at any time: _compile does
\* nothing while the compiling flag is true, the flag is true before the
\* worker is started, and only the worker sets it back to false, after it
\* has written the history entry of its build.
C24_OneWorker == []C24_FlagHeld /\ [][C24_Step]_vars

\* A build is running and the Compile button can be pressed (a file was
\* loaded since the build began).
C24_Witness ==
    /\ compiling
    /\ WorkerInFlight
    /\ compile_btn
    /\ builds = 1

\* The source file an output path was proposed for.
SourceOf(out) == IF out = "a.exe" THEN "a.py" ELSE "b.bat"

\* C28: the build a worker runs and records is the one that was requested:
\* the source path and the file type of every history entry are those of
\* the file the entry's output path was derived for.
C28_RecordsRequested ==
    \A i \in 1..Len(history) :
        /\ history[i].source = SourceOf(history[i].output)
        /\ history[i].type = Ext(SourceOf(history[i].output))

\* C27: every build that sets the compiling flag eventually clears it, on
\* every path its worker can take, so that the wait loop of _compile_all
\* always ends.
C27_FlagEventuallyCleared ==
    /\ compiling ~> ~compiling
    /\ (ca_pc = "wait") ~> (ca_pc # "wait")

====
